---- MODULE Spec2Model ----
(***************************************************************************)
(* Model of the trading dashboard's analysis core:                         *)
(*   TradeSetupDetector   (src/trade-setup-detector.js)                    *)
(*   RiskCalculator       (src/risk-calculator.js)                         *)
(*   TechnicalIndicators  (src/technical-indicators.js)                    *)
(*   PatternRecognition   (src/pattern-recognition.js)                     *)
(*   AITradingModels      (src/api-manager.js, detectMarketRegime)         *)
(*   WebSocketManager     (src/unnamed/part_001)                           *)
(*                                                                         *)
(* Numbers.  JavaScript numbers are modelled as exact reals:               *)
(*   - prices are integers in thousandths of a quote unit ("milli");       *)
(*     the price inputs are multiples of 1000, so every product with a     *)
(*     three-decimal factor (0.98, 1.02, 0.015, 0.995 ...) is exact;       *)
(*   - scores, ratios and thresholds are integers in thousandths;          *)
(*   - a setup's confidence is an integer in units of 1/ConfUnit, the      *)
(*     common denominator of the code's three divisors 5.3, 3.5 and 1;     *)
(*   - a value that may be undefined or NaN is a sequence: <<>> when       *)
(*     undefined/NaN, <<v>> when it is the number v;                       *)
(*   - the risk calculator divides by caller-supplied distances, so it     *)
(*     uses extended rationals [n, d] with d = 0 for Infinity and NaN.     *)
(***************************************************************************)
EXTENDS Integers, Sequences, FiniteSets, TLC

VARIABLES
    minConfidence,  \* TradeSetupDetector.minConfidence, in thousandths
    activeSetups,   \* TradeSetupDetector.activeSetups
    setupHistory,   \* TradeSetupDetector.setupHistory
    candles,        \* argument: the candle list
    indicators,     \* argument: the indicator snapshots (index-aligned)
    patterns,       \* argument: the detected patterns
    prediction,     \* argument: <<>> (null) or <<[direction, confidence]>>
    regime,         \* argument: [regime |-> ...]
    now,            \* the value Date.now() returns during the call
    pc,             \* position of the caller
    result,         \* the list analyzeMarket resolved with
    riskCall,       \* the direct library call in progress: [op, ...arguments]
    riskOut,        \* <<>> before the call returns, <<value>> after
    detectedPatterns,   \* PatternRecognition.detectedPatterns
    supportResistance,  \* PatternRecognition.supportResistance
    currentSymbol,      \* TradingDashboard.currentSymbol
    running,            \* whether connectWebSockets() has run
    connections,        \* WebSocketManager.connections: key -> socket, 0 for no entry
    isConnected,        \* WebSocketManager.isConnected: key -> "unset", TRUE or FALSE
    reconnectAttempts,  \* WebSocketManager.reconnectAttempts, 0 when unset
    sockets,            \* every WebSocket created: [exchange, symbol, readyState]
    timers,             \* pending setTimeout callbacks of reconnect, per key
    emitted             \* events emitted since the dashboard last cleared its data

detectorVars == <<minConfidence, activeSetups, setupHistory, candles, indicators,
                  patterns, prediction, regime, now, pc, result>>

riskVars == <<riskCall, riskOut>>

patternVars == <<detectedPatterns, supportResistance>>

socketVars == <<currentSymbol, running, connections, isConnected, reconnectAttempts,
                sockets, timers, emitted>>

vars == <<detectorVars, riskVars, patternVars, socketVars>>

\* A PatternRecognition instance as its constructor leaves it.
PatternsIdle == detectedPatterns = <<>> /\ supportResistance = <<>>

\* CONFIG.EXCHANGES, in the order forEach visits them, and the symbols the
\* dashboard switches between; CONFIG.DEFAULT.SYMBOL is the first.
Exchanges == <<"binance", "bybit">>

Symbols == {"BTCUSDT", "ETHUSDT"}

DefaultSymbol == "BTCUSDT"

\* The key `${exchange}_${symbol}` of a connection.
Key(exchange, symbol) == <<exchange, symbol>>

Keys == { Key(Exchanges[i], symbol) : i \in 1..Len(Exchanges), symbol \in Symbols }

\* A WebSocketManager as its constructor leaves it, in a dashboard that has not
\* connected yet.
SocketsIdle ==
    /\ currentSymbol = DefaultSymbol
    /\ running = FALSE
    /\ connections = [k \in Keys |-> 0]
    /\ isConnected = [k \in Keys |-> "unset"]
    /\ reconnectAttempts = [k \in Keys |-> 0]
    /\ sockets = <<>>
    /\ timers = [k \in Keys |-> 0]
    /\ emitted = {}

----------------------------------------------------------------------------
(* Optional numbers: undefined / NaN is <<>>, the number v is <<v>>. *)

Undef == <<>>

IsNum(x) == x # <<>>

\* JavaScript truthiness of a number-or-undefined: undefined, NaN and 0 are falsy.
Truthy(x) == x # <<>> /\ x[1] # 0

AbsInt(x) == IF x < 0 THEN -x ELSE x

MinInt(a, b) == IF a < b THEN a ELSE b

MaxInt(a, b) == IF a > b THEN a ELSE b

\* x * (permille / 1000), for the code's three-decimal factors.
Times(x, permille) == (x * permille) \div 1000

\* Math.max / Math.min over the values f[i] of a non-empty sequence.
SeqMax(s) == CHOOSE m \in {s[i] : i \in 1..Len(s)} : \A i \in 1..Len(s) : s[i] <= m

SeqMin(s) == CHOOSE m \in {s[i] : i \in 1..Len(s)} : \A i \in 1..Len(s) : s[i] >= m

\* Array.prototype.slice(-k): the last k elements (all of them when shorter,
\* and when k is 0, since -0 is 0).
LastK(s, k) == IF k = 0 \/ Len(s) <= k THEN s ELSE SubSeq(s, Len(s) - k + 1, Len(s))

\* One signal line when the condition holds, none otherwise.
Sig(cond, text) == IF cond THEN <<text>> ELSE <<>>

----------------------------------------------------------------------------
(* Confidence arithmetic.                                                  *)

\* Confidences are integers in units of 1/ConfUnit, the least common multiple of
\* the divisors 5300 (= 53 * 100), 3500 (= 7 * 500) and 1000.
ConfUnit == 53 * 7 * 1000

\* A value in thousandths (0.60 = 600) as a confidence.
ConfOfMilli(m) == m * (ConfUnit \div 1000)

\* Math.abs(score) / maxScore of detectTrendFollowing, maxScore = 1 + 1.5 + 2 + 0.8.
TrendMaxScore == 5300

\* The divisor 3.5 of detectMeanReversion and detectBreakout.
ReversionMaxScore == 3500

\* The cap 0.95 of Math.min(0.95, ...).
ConfidenceCap == 950

----------------------------------------------------------------------------
(* TradeSetupDetector: the five strategies.  Each returns <<>> for null    *)
(* and <<setup>> for a setup.                                              *)

Trending(rg) == rg.regime = "BULLISH_TRENDING" \/ rg.regime = "BEARISH_TRENDING"

\* The three EMAs are all truthy (lines 78).
HasEMAs(ind) == Truthy(ind.ema9) /\ Truthy(ind.ema20) /\ Truthy(ind.ema50)

BullishMA(ind) == HasEMAs(ind) /\ ind.ema9[1] > ind.ema20[1] /\ ind.ema20[1] > ind.ema50[1]

BearishMA(ind) ==
    HasEMAs(ind) /\ ~BullishMA(ind)
    /\ ind.ema9[1] < ind.ema20[1] /\ ind.ema20[1] < ind.ema50[1]

\* The prediction is counted as agreeing with the score so far (lines 90-92).
AIConfirms(score, pred) ==
    /\ pred # <<>>
    /\ \/ score > 0 /\ pred[1].direction = "LONG"
       \/ score < 0 /\ pred[1].direction = "SHORT"

\* The score after the prediction step: score += prediction.confidence * 2.
TrendScoreAfterAI(score, pred) ==
    IF AIConfirms(score, pred) THEN score + pred[1].confidence * 2 ELSE score

HasMACD(ind) == Truthy(ind.macd) /\ Truthy(ind.macdSignal)

MACDBullish(score, ind) == HasMACD(ind) /\ score > 0 /\ ind.macd[1] > ind.macdSignal[1]

MACDBearish(score, ind) ==
    HasMACD(ind) /\ ~MACDBullish(score, ind)
    /\ score < 0 /\ ind.macd[1] < ind.macdSignal[1]

\* The signed score of detectTrendFollowing, in thousandths.
TrendScore(ind, pred, rg) ==
    LET s1 == IF Trending(rg) THEN 1000 ELSE 0
        s2 == s1 + (IF BullishMA(ind) THEN 1500 ELSE IF BearishMA(ind) THEN -1500 ELSE 0)
        s3 == TrendScoreAfterAI(s2, pred)
    IN  s3 + (IF MACDBullish(s3, ind) THEN 800 ELSE IF MACDBearish(s3, ind) THEN -800 ELSE 0)

TrendSignals(ind, pred, rg) ==
    LET s1 == IF Trending(rg) THEN 1000 ELSE 0
        s2 == s1 + (IF BullishMA(ind) THEN 1500 ELSE IF BearishMA(ind) THEN -1500 ELSE 0)
        s3 == TrendScoreAfterAI(s2, pred)
    IN  Sig(Trending(rg), "Trending Market")
        \o Sig(BullishMA(ind), "Bullish MA Alignment")
        \o Sig(BearishMA(ind), "Bearish MA Alignment")
        \o (IF AIConfirms(s2, pred) THEN <<"AI Confirms " \o pred[1].direction>> ELSE <<>>)
        \o Sig(MACDBullish(s3, ind), "MACD Bullish")
        \o Sig(MACDBearish(s3, ind), "MACD Bearish")

\* normalizedScore = Math.abs(score) / maxScore, as a confidence.
TrendConfidence(score) == AbsInt(score) * (ConfUnit \div TrendMaxScore)

\* Strategy 1: Trend Following with AI.
DetectTrendFollowing(cs, ind, pred, rg) ==
    LET score == TrendScore(ind, pred, rg)
        normalizedScore == TrendConfidence(score)
        direction == IF score > 0 THEN "LONG" ELSE "SHORT"
        currentPrice == cs[Len(cs)].close
        atr == IF Truthy(ind.atr) THEN ind.atr[1] ELSE Times(currentPrice, 20)
    IN  IF normalizedScore >= ConfOfMilli(minConfidence)
        THEN << [type |-> "TREND_FOLLOWING",
                 direction |-> direction,
                 confidence |-> normalizedScore,
                 entry |-> <<currentPrice>>,
                 stopLoss |-> IF direction = "LONG" THEN <<currentPrice - atr * 2>>
                                                    ELSE <<currentPrice + atr * 2>>,
                 takeProfit |-> IF direction = "LONG" THEN <<currentPrice + atr * 4>>
                                                      ELSE <<currentPrice - atr * 4>>,
                 riskReward |-> 2000,
                 signals |-> TrendSignals(ind, pred, rg),
                 timestamp |-> now] >>
        ELSE <<>>

\* Math.min(0.95, Math.abs(score) / 3.5), as a confidence.
CappedConfidence(score) ==
    MinInt(ConfOfMilli(ConfidenceCap), AbsInt(score) * (ConfUnit \div ReversionMaxScore))

Oversold(ind) == IsNum(ind.rsi) /\ ind.rsi[1] < 30

Overbought(ind) == IsNum(ind.rsi) /\ ~Oversold(ind) /\ ind.rsi[1] > 70

AtLowerBB(ind) == IsNum(ind.bollingerBand) /\ ind.bollingerBand[1] < 100

AtUpperBB(ind) == IsNum(ind.bollingerBand) /\ ~AtLowerBB(ind) /\ ind.bollingerBand[1] > 900

\* The score of detectMeanReversion before the pattern step.
ReversionBaseScore(ind) ==
    (IF Oversold(ind) THEN 1500 ELSE -1500)
    + (IF AtLowerBB(ind) THEN 1000 ELSE IF AtUpperBB(ind) THEN -1000 ELSE 0)

\* patterns.filter(p => (score > 0 && BULLISH) || (score < 0 && BEARISH))
ReversalPatterns(score, ps) ==
    LET Keep(p) == \/ score > 0 /\ p.direction = "BULLISH"
                   \/ score < 0 /\ p.direction = "BEARISH"
    IN  SelectSeq(ps, Keep)

\* The final score of detectMeanReversion: score += reversalPatterns[0].confidence.
ReversionScore(ind, ps) ==
    LET score == ReversionBaseScore(ind)
        rev == ReversalPatterns(score, ps)
    IN  IF Len(rev) > 0 THEN score + rev[1].confidence ELSE score

\* Strategy 2: Mean Reversion.
DetectMeanReversion(price, ind, ps) ==
    IF ~Oversold(ind) /\ ~Overbought(ind) THEN <<>>
    ELSE
    LET base == ReversionBaseScore(ind)
        rev == ReversalPatterns(base, ps)
        score == ReversionScore(ind, ps)
        confidence == CappedConfidence(score)
        direction == IF score > 0 THEN "LONG" ELSE "SHORT"
        stopLossDistance == Times(price, 15)
    IN  IF confidence >= ConfOfMilli(minConfidence)
        THEN << [type |-> "MEAN_REVERSION",
                 direction |-> direction,
                 confidence |-> confidence,
                 entry |-> <<price>>,
                 stopLoss |-> IF direction = "LONG" THEN <<price - stopLossDistance>>
                                                    ELSE <<price + stopLossDistance>>,
                 takeProfit |->
                     IF Truthy(ind.bollingerMiddle) THEN ind.bollingerMiddle
                     ELSE IF direction = "LONG" THEN <<Times(price, 1020)>>
                                                ELSE <<Times(price, 980)>>,
                 riskReward |-> 2000,
                 signals |-> Sig(Oversold(ind), "RSI Oversold")
                             \o Sig(Overbought(ind), "RSI Overbought")
                             \o Sig(AtLowerBB(ind), "At Lower BB")
                             \o Sig(AtUpperBB(ind), "At Upper BB")
                             \o (IF Len(rev) > 0 THEN <<"Pattern: " \o rev[1].type>>
                                 ELSE <<>>),
                 timestamp |-> now] >>
        ELSE <<>>

\* Types whose name includes 'TRIANGLE' or 'FLAG' (p.type.includes, line 237).
BreakoutPatternTypes ==
    {"ASCENDING_TRIANGLE", "DESCENDING_TRIANGLE", "SYMMETRIC_TRIANGLE", "BULL_FLAG", "BEAR_FLAG"}

Highs(cs) == [i \in 1..Len(cs) |-> cs[i].high]

Lows(cs) == [i \in 1..Len(cs) |-> cs[i].low]

Closes(cs) == [i \in 1..Len(cs) |-> cs[i].close]

\* Math.max(...candles.slice(-20).map(c => c.high)): the current candle included.
RecentHigh(cs) == SeqMax(Highs(LastK(cs, 20)))

RecentLow(cs) == SeqMin(Lows(LastK(cs, 20)))

\* currentPrice > recentHigh * 1.001
BreakingHigh(cs) == cs[Len(cs)].close * 1000 > RecentHigh(cs) * 1001

\* currentPrice < recentLow * 0.999
BreakingLow(cs) == cs[Len(cs)].close * 1000 < RecentLow(cs) * 999

HighVolume(ind) == IsNum(ind.volumeRatio) /\ ind.volumeRatio[1] > 1500

BreakoutPatterns(ps) ==
    LET Keep(p) == p.type \in BreakoutPatternTypes
    IN  SelectSeq(ps, Keep)

\* The signed score of detectBreakout, in thousandths.
BreakoutScore(cs, ind, ps) ==
    LET s1 == IF BreakingHigh(cs) THEN 1500 ELSE -1500
        s2 == IF HighVolume(ind) THEN s1 + (IF s1 > 0 THEN 1000 ELSE -1000) ELSE s1
        bp == BreakoutPatterns(ps)
    IN  IF Len(bp) > 0 THEN s2 + bp[1].confidence ELSE s2

\* Strategy 3: Breakout Trading.
DetectBreakout(cs, ind, ps) ==
    IF ~BreakingHigh(cs) /\ ~BreakingLow(cs) THEN <<>>
    ELSE
    LET currentPrice == cs[Len(cs)].close
        recentHigh == RecentHigh(cs)
        recentLow == RecentLow(cs)
        score == BreakoutScore(cs, ind, ps)
        bp == BreakoutPatterns(ps)
        confidence == CappedConfidence(score)
        direction == IF score > 0 THEN "LONG" ELSE "SHORT"
        range == recentHigh - recentLow
    IN  IF confidence >= ConfOfMilli(minConfidence)
        THEN << [type |-> "BREAKOUT",
                 direction |-> direction,
                 confidence |-> confidence,
                 entry |-> <<currentPrice>>,
                 stopLoss |-> IF direction = "LONG" THEN <<Times(recentHigh, 995)>>
                                                    ELSE <<Times(recentLow, 1005)>>,
                 takeProfit |-> IF direction = "LONG" THEN <<currentPrice + range>>
                                                      ELSE <<currentPrice - range>>,
                 riskReward |-> 2000,
                 signals |-> (IF BreakingHigh(cs) THEN <<"Breaking Recent High">>
                              ELSE <<"Breaking Recent Low">>)
                             \o Sig(HighVolume(ind), "High Volume Breakout")
                             \o (IF Len(bp) > 0 THEN <<"Pattern: " \o bp[1].type>> ELSE <<>>),
                 timestamp |-> now] >>
        ELSE <<>>

\* patterns.reduce((best, current) => current.confidence > best.confidence ? current : best)
RECURSIVE BestFrom(_, _)
BestFrom(best, rest) ==
    IF rest = <<>> THEN best
    ELSE BestFrom(IF Head(rest).confidence > best.confidence THEN Head(rest) ELSE best,
                  Tail(rest))

BestPattern(ps) == BestFrom(Head(ps), Tail(ps))

RSIConfirms(p, ind) ==
    \/ p.direction = "BULLISH" /\ IsNum(ind.rsi) /\ ind.rsi[1] < 50
    \/ p.direction = "BEARISH" /\ IsNum(ind.rsi) /\ ind.rsi[1] > 50

\* prediction && prediction.direction === bestPattern.direction
AIConfirmsPattern(p, pred) == pred # <<>> /\ pred[1].direction = p.direction

\* The confidence of detectPatternTrade, in thousandths, after the cap.
PatternConfidence(p, ind, pred) ==
    MinInt(ConfidenceCap,
           p.confidence + (IF RSIConfirms(p, ind) THEN 50 ELSE 0)
                        + (IF AIConfirmsPattern(p, pred) THEN 100 ELSE 0))

\* direction: bestPattern.direction
PatternDirection(p) == p.direction

\* stopLoss: level * 0.98 or level * 1.02; NaN when the pattern has no level.
PatternStop(p) ==
    IF ~IsNum(p.level) THEN <<>>
    ELSE IF p.direction = "BULLISH" THEN <<Times(p.level[1], 980)>>
         ELSE <<Times(p.level[1], 1020)>>

\* Strategy 4: Pattern-Based Trading.
DetectPatternTrade(ps, ind, pred) ==
    IF Len(ps) = 0 THEN <<>>
    ELSE
    LET bestPattern == BestPattern(ps)
    IN  IF bestPattern.confidence < minConfidence THEN <<>>
        ELSE IF Truthy(bestPattern.target)
        THEN << [type |-> "PATTERN_TRADE",
                 direction |-> PatternDirection(bestPattern),
                 confidence |-> ConfOfMilli(PatternConfidence(bestPattern, ind, pred)),
                 entry |-> IF Truthy(bestPattern.level) THEN bestPattern.level
                           ELSE ind.price,   \* both are optional numbers
                 stopLoss |-> PatternStop(bestPattern),
                 takeProfit |-> bestPattern.target,
                 riskReward |-> 2000,
                 signals |-> <<"Pattern: " \o bestPattern.type>>
                             \o Sig(bestPattern.direction = "BULLISH"
                                    /\ RSIConfirms(bestPattern, ind), "RSI Below 50")
                             \o Sig(bestPattern.direction = "BEARISH"
                                    /\ RSIConfirms(bestPattern, ind), "RSI Above 50")
                             \o Sig(AIConfirmsPattern(bestPattern, pred), "AI Confirms"),
                 timestamp |-> now] >>
        ELSE <<>>

----------------------------------------------------------------------------
(* TechnicalIndicators.detectDivergence and its swing helpers.             *)

\* The swing radius: findSwingHighs(data, period = 5).
SwingPeriod == 5

\* The default window: detectDivergence(prices, indicator, periods = 20).
DivergencePeriods == 20

\* data[i] is a swing high: strictly above every other value of the indices
\* i - period .. i + period (indices from 1 here).
SwingHighAt(data, i, period) ==
    \A j \in (i - period)..(i + period) : j # i => data[j] < data[i]

SwingLowAt(data, i, period) ==
    \A j \in (i - period)..(i + period) : j # i => data[j] > data[i]

\* The values data[i] of the indices i..last the predicate accepts, in index order.
RECURSIVE SwingValues(_, _, _, _, _)
SwingValues(data, i, last, period, wantHigh) ==
    IF i > last THEN <<>>
    ELSE (IF (wantHigh /\ SwingHighAt(data, i, period))
             \/ (~wantHigh /\ SwingLowAt(data, i, period))
          THEN <<data[i]>> ELSE <<>>)
         \o SwingValues(data, i + 1, last, period, wantHigh)

\* findSwingHighs(data, period): the loop runs over period <= i < length - period.
FindSwingHighs(data, period) == SwingValues(data, period + 1, Len(data) - period, period, TRUE)

FindSwingLows(data, period) == SwingValues(data, period + 1, Len(data) - period, period, FALSE)

\* The strength both divergences carry: 0.8.
DivergenceStrength == 800

\* A detectDivergence that looks for the bearish divergence first.
DetectDivergence_BearishFirst(prices, indicator, periods) ==
    IF Len(prices) < periods \/ Len(indicator) < periods THEN <<>>
    ELSE
    LET recentPrices == LastK(prices, periods)
        recentIndicator == LastK(indicator, periods)
        priceHighs == FindSwingHighs(recentPrices, SwingPeriod)
        priceLows == FindSwingLows(recentPrices, SwingPeriod)
        indHighs == FindSwingHighs(recentIndicator, SwingPeriod)
        indLows == FindSwingLows(recentIndicator, SwingPeriod)
        bullish == /\ Len(priceLows) >= 2 /\ Len(indLows) >= 2
                   /\ priceLows[Len(priceLows)] < priceLows[Len(priceLows) - 1]
                   /\ indLows[Len(indLows)] > indLows[Len(indLows) - 1]
        bearish == /\ Len(priceHighs) >= 2 /\ Len(indHighs) >= 2
                   /\ priceHighs[Len(priceHighs)] > priceHighs[Len(priceHighs) - 1]
                   /\ indHighs[Len(indHighs)] < indHighs[Len(indHighs) - 1]
    IN  IF bearish THEN <<[type |-> "BEARISH", strength |-> DivergenceStrength]>>
        ELSE IF bullish THEN <<[type |-> "BULLISH", strength |-> DivergenceStrength]>>
        ELSE <<>>

\* detectDivergence(prices, indicator, periods): <<>> for null.
DetectDivergence(prices, indicator, periods) ==
    IF Len(prices) < periods \/ Len(indicator) < periods THEN <<>>
    ELSE
    LET recentPrices == LastK(prices, periods)
        recentIndicator == LastK(indicator, periods)
        priceHighs == FindSwingHighs(recentPrices, SwingPeriod)
        priceLows == FindSwingLows(recentPrices, SwingPeriod)
        indHighs == FindSwingHighs(recentIndicator, SwingPeriod)
        indLows == FindSwingLows(recentIndicator, SwingPeriod)
        bullish == /\ Len(priceLows) >= 2 /\ Len(indLows) >= 2
                   /\ priceLows[Len(priceLows)] < priceLows[Len(priceLows) - 1]
                   /\ indLows[Len(indLows)] > indLows[Len(indLows) - 1]
        bearish == /\ Len(priceHighs) >= 2 /\ Len(indHighs) >= 2
                   /\ priceHighs[Len(priceHighs)] > priceHighs[Len(priceHighs) - 1]
                   /\ indHighs[Len(indHighs)] < indHighs[Len(indHighs) - 1]
    IN  IF bullish THEN <<[type |-> "BULLISH", strength |-> DivergenceStrength]>>
        ELSE IF bearish THEN <<[type |-> "BEARISH", strength |-> DivergenceStrength]>>
        ELSE <<>>

\* indicators.slice(-20).map(i => i.rsi).filter(v => v !== undefined)
RsiValues(inds) ==
    LET last == LastK(inds, 20)
        Keep(v) == v # <<>>
        defined == SelectSeq([i \in 1..Len(last) |-> last[i].rsi], Keep)
    IN  [i \in 1..Len(defined) |-> defined[i][1]]

\* Strategy 5: Divergence Trading.
DetectDivergenceTrade(cs, inds) ==
    IF Len(inds) < 20 THEN <<>>
    ELSE IF Len(RsiValues(inds)) < 20 THEN <<>>
    ELSE
    LET prices == Closes(LastK(cs, 20))
        divergence == DetectDivergence(prices, RsiValues(inds), DivergencePeriods)
        currentPrice == cs[Len(cs)].close
    IN  IF divergence = <<>> THEN <<>>
        ELSE << [type |-> "DIVERGENCE",
                 direction |-> IF divergence[1].type = "BULLISH" THEN "LONG" ELSE "SHORT",
                 confidence |-> ConfOfMilli(divergence[1].strength),
                 entry |-> <<currentPrice>>,
                 stopLoss |-> IF divergence[1].type = "BULLISH"
                              THEN <<Times(currentPrice, 980)>>
                              ELSE <<Times(currentPrice, 1020)>>,
                 takeProfit |-> IF divergence[1].type = "BULLISH"
                                THEN <<Times(currentPrice, 1040)>>
                                ELSE <<Times(currentPrice, 960)>>,
                 riskReward |-> 2000,
                 signals |-> <<divergence[1].type \o " Divergence (RSI)">>,
                 timestamp |-> now] >>

----------------------------------------------------------------------------
(* TradeSetupDetector.analyzeMarket.                                       *)

\* A detector that returns every candidate setup unfiltered.
FilterByConfidence_Omitted(setups) == setups

\* setups.filter(s => s.confidence >= this.minConfidence)
FilterByConfidence(setups) ==
    LET Keep(s) == s.confidence >= ConfOfMilli(minConfidence)
    IN  SelectSeq(setups, Keep)

\* Where a stable descending sort puts x in an already sorted list.
RECURSIVE InsertByConfidence(_, _)
InsertByConfidence(x, sorted) ==
    IF sorted = <<>> THEN <<x>>
    ELSE IF Head(sorted).confidence >= x.confidence
         THEN <<Head(sorted)>> \o InsertByConfidence(x, Tail(sorted))
         ELSE <<x>> \o sorted

\* validSetups.sort((a, b) => b.confidence - a.confidence): stable, descending.
RECURSIVE SortByConfidence(_)
SortByConfidence(setups) ==
    IF setups = <<>> THEN <<>>
    ELSE InsertByConfidence(setups[Len(setups)],
                            SortByConfidence(SubSeq(setups, 1, Len(setups) - 1)))

\* The five strategies' setups in the order analyzeMarket pushes them.
AllSetups(cs, inds, ps, pred, rg) ==
    LET currentPrice == cs[Len(cs)].close
        latestIndicator == inds[Len(inds)]
    IN  DetectTrendFollowing(cs, latestIndicator, pred, rg)
        \o DetectMeanReversion(currentPrice, latestIndicator, ps)
        \o DetectBreakout(cs, latestIndicator, ps)
        \o DetectPatternTrade(ps, latestIndicator, pred)
        \o DetectDivergenceTrade(cs, inds)

\* candles[candles.length - 1].close and latestIndicator.ema9 are property reads
\* of undefined when the respective list is empty: a TypeError, so the promise
\* of the async function is rejected.
AnalyzeThrows(cs, inds) == cs = <<>> \/ inds = <<>>

\* A detector that keeps the setups of earlier calls in front of the new ones.
ValidSetups_Accumulating(cs, inds, ps, pred, rg) ==
    activeSetups \o SortByConfidence(FilterByConfidence(AllSetups(cs, inds, ps, pred, rg)))

ValidSetups(cs, inds, ps, pred, rg) ==
    SortByConfidence(FilterByConfidence(AllSetups(cs, inds, ps, pred, rg)))

\* await analyzeMarket(candles, indicators, patterns, prediction, regime)
AnalyzeMarket ==
    /\ pc \in {"ready", "again"}
    /\ IF AnalyzeThrows(candles, indicators)
       THEN /\ pc' = "threw"
            /\ UNCHANGED <<activeSetups, result>>
       ELSE /\ activeSetups' = ValidSetups(candles, indicators, patterns, prediction, regime)
            /\ result' = activeSetups'
            /\ pc' = "returned"
    /\ UNCHANGED <<minConfidence, setupHistory, candles, indicators, patterns,
                   prediction, regime, now>>
    /\ UNCHANGED <<riskVars, patternVars, socketVars>>

\* getActiveSetups()
GetActiveSetups == activeSetups

\* getSummary(): total, long and short counts of the active setups.
GetSummary ==
    LET IsLong(s) == s.direction = "LONG"
        IsShort(s) == s.direction = "SHORT"
    IN  [total |-> Len(activeSetups),
         long |-> Len(SelectSeq(activeSetups, IsLong)),
         short |-> Len(SelectSeq(activeSetups, IsShort)),
         bestSetup |-> IF Len(activeSetups) > 0 THEN <<activeSetups[1]>> ELSE <<>>]

----------------------------------------------------------------------------
(* The inputs of analyzeMarket.                                            *)

\* A candle closing at c with the given high and low (milli).
Candle(t, c, h, l) ==
    [timestamp |-> t, open |-> c, high |-> h, low |-> l, close |-> c, volume |-> 10]

\* low <= open, close <= high and positive prices.
WellFormed(cs) ==
    \A i \in 1..Len(cs) :
        /\ cs[i].low > 0
        /\ cs[i].low <= cs[i].open /\ cs[i].open <= cs[i].high
        /\ cs[i].low <= cs[i].close /\ cs[i].close <= cs[i].high

\* A snapshot with no indicator field present.
BlankSnapshot(t, c) ==
    [timestamp |-> t, price |-> <<c>>, ema9 |-> <<>>, ema20 |-> <<>>, ema50 |-> <<>>,
     rsi |-> <<>>, macd |-> <<>>, macdSignal |-> <<>>, bollingerMiddle |-> <<>>,
     bollingerBand |-> <<>>, atr |-> <<>>, volumeRatio |-> <<>>]

\* EMA9/20/50: bullish order, bearish order, unordered, and ema50 not yet present.
EmaCases ==
    { <<101000, 100000, 99000>>, <<99000, 100000, 101000>>,
      <<100000, 101000, 99000>>, <<101000, 100000>> }

\* macd and macdSignal: absent, macd above its signal, macd below its signal.
MacdCases == { <<>>, <<300, 100>>, <<-300, -100>> }

AtrCases == { <<>>, <<1500>> }

RsiCases == { <<25>>, <<45>>, <<75>> }

\* bollingerBand (position, thousandths) and bollingerMiddle (price): absent, at
\* the lower band under the middle, at the upper band over the middle, and
\* inside the bands with the close above the middle.
BollingerCases == { <<>>, <<50, 103000>>, <<950, 97000>>, <<500, 98000>> }

Snapshot(t, c, ema, macd, atr, rsi, bb, vr) ==
    [timestamp |-> t, price |-> <<c>>,
     ema9 |-> <<ema[1]>>, ema20 |-> <<ema[2]>>,
     ema50 |-> IF Len(ema) = 3 THEN <<ema[3]>> ELSE <<>>,
     rsi |-> rsi,
     macd |-> IF macd = <<>> THEN <<>> ELSE <<macd[1]>>,
     macdSignal |-> IF macd = <<>> THEN <<>> ELSE <<macd[2]>>,
     bollingerMiddle |-> IF bb = <<>> THEN <<>> ELSE <<bb[2]>>,
     bollingerBand |-> IF bb = <<>> THEN <<>> ELSE <<bb[1]>>,
     atr |-> atr, volumeRatio |-> vr]

Pattern(type, direction, confidence, level, target) ==
    [type |-> type, direction |-> direction, confidence |-> confidence,
     level |-> level, target |-> target]

\* Pattern lists as detectAllPatterns builds them (type, direction, confidence and
\* which of level/target a detector sets), and one pattern of confidence 0.95.
PatternLists ==
    { <<>>,
      <<Pattern("HEAD_AND_SHOULDERS", "BEARISH", 750, <<>>, <<90000>>)>>,
      <<Pattern("DOUBLE_TOP", "BEARISH", 700, <<104000>>, <<96000>>)>>,
      <<Pattern("DOUBLE_BOTTOM", "BULLISH", 700, <<96000>>, <<104000>>)>>,
      <<Pattern("ASCENDING_TRIANGLE", "BULLISH", 650, <<>>, <<105000>>),
        Pattern("DOJI", "NEUTRAL", 500, <<>>, <<>>)>>,
      <<Pattern("BEAR_FLAG", "BEARISH", 700, <<>>, <<95000>>),
        Pattern("BEARISH_ENGULFING", "BEARISH", 700, <<>>, <<>>)>>,
      <<Pattern("SYMMETRIC_TRIANGLE", "NEUTRAL", 600, <<>>, <<>>)>>,
      <<Pattern("DOUBLE_BOTTOM", "BULLISH", 950, <<96000>>, <<104000>>),
        Pattern("HAMMER", "BULLISH", 600, <<>>, <<>>)>> }

\* null, or a prediction of AITradingModels.predict: direction LONG | SHORT.
Predictions ==
    { <<>> } \cup { <<[direction |-> d, confidence |-> c]>> :
                        d \in {"LONG", "SHORT"}, c \in {500, 1000} }

Regimes == { [regime |-> r] : r \in {"BULLISH_TRENDING", "BEARISH_TRENDING", "RANGING"} }

\* The configured thresholds: the constructor's 0.60 and a stricter 0.90.
DefaultMinConfidence == 600

MinConfidences == { DefaultMinConfidence, 900 }

\* The clock readings Date.now() may return.
Clock == { 1700000000, 1700000060 }

\* Two well-formed candles closing at 100.000.
FlatCandles == << Candle(1, 100000, 101000, 99000), Candle(2, 100000, 101000, 99000) >>

\* Calls that vary the latest snapshot, the patterns, the prediction and the regime.
InitGrid ==
    /\ candles = FlatCandles
    /\ \E ema \in EmaCases, macd \in MacdCases, atr \in AtrCases,
          rsi \in RsiCases, bb \in BollingerCases :
          indicators = << Snapshot(2, 100000, ema, macd, atr, rsi, bb, <<1000>>) >>
    /\ patterns \in PatternLists
    /\ prediction \in Predictions
    /\ regime \in Regimes

\* Twenty values with two V-shaped (sign = 1) or peaked (sign = -1) turns, at
\* indices 7 and 14, of depths a and b.
TwoSwings(a, b, sign) ==
    [i \in 1..20 |-> IF i <= 10 THEN a + sign * 2 * AbsInt(i - 7)
                     ELSE b + sign * 2 * AbsInt(i - 14)]

\* Closing prices in whole quote units: a lower low, a higher low, a higher high,
\* and a flat series.
CloseShapes ==
    { TwoSwings(100, 99, 1), TwoSwings(100, 101, 1), TwoSwings(100, 101, -1),
      [i \in 1..20 |-> 100] }

\* RSI readings: a higher low, a lower low, a lower high, and a series whose
\* tenth reading is missing.
RsiShapes ==
    { [i \in 1..20 |-> <<TwoSwings(30, 33, 1)[i]>>],
      [i \in 1..20 |-> <<TwoSwings(30, 26, 1)[i]>>],
      [i \in 1..20 |-> <<TwoSwings(70, 67, -1)[i]>>],
      [i \in 1..20 |-> IF i = 10 THEN <<>> ELSE <<50>>] }

\* The last candle of a series: well-formed, or a bad tick whose close lies
\* above its high or below its low.
LastCandleKinds == { "ok", "closeAboveHigh", "closeBelowLow" }

\* The close of candle i: a bad tick closes 5.000 outside the candle's range.
SeriesClose(closes, kind, i) ==
    closes[i] * 1000 + (IF i = 20 /\ kind = "closeAboveHigh" THEN 5000
                        ELSE IF i = 20 /\ kind = "closeBelowLow" THEN -5000 ELSE 0)

SeriesCandles(closes, kind) ==
    [i \in 1..20 |->
        Candle(i, SeriesClose(closes, kind, i), closes[i] * 1000 + 1000, closes[i] * 1000 - 1000)]

SeriesIndicators(closes, kind, rsis, ema, vr) ==
    [i \in 1..20 |->
        IF i = 20
        THEN Snapshot(i, SeriesClose(closes, kind, i), ema, <<300, 100>>, <<>>, rsis[i], <<>>, vr)
        ELSE [BlankSnapshot(i, closes[i] * 1000) EXCEPT !.rsi = rsis[i]]]

\* Calls that vary the last twenty candles and RSI readings.
InitSeries ==
    /\ \E closes \in CloseShapes, rsis \in RsiShapes, kind \in LastCandleKinds,
          ema \in { <<101000, 100000, 99000>>, <<99000, 100000, 101000>> },
          vr \in { <<1000>>, <<2000>> } :
          /\ candles = SeriesCandles(closes, kind)
          /\ indicators = SeriesIndicators(closes, kind, rsis, ema, vr)
    /\ patterns \in { ps \in PatternLists :
                        ps = <<>> \/ ps[1].type \in {"BEAR_FLAG", "DOUBLE_BOTTOM"} }
    /\ prediction \in { pr \in Predictions : pr = <<>> \/ pr[1].confidence = 1000 }
    /\ regime \in Regimes

InitCommon ==
    /\ minConfidence \in MinConfidences
    /\ now \in Clock
    /\ activeSetups = <<>>
    /\ setupHistory = <<>>
    /\ result = <<>>
    /\ pc = "ready"

\* No RiskCalculator call in progress.
RiskIdle == riskCall = [op |-> "none"] /\ riskOut = <<>>

Init == InitCommon /\ (InitGrid \/ InitSeries) /\ RiskIdle /\ PatternsIdle /\ SocketsIdle

Next == AnalyzeMarket

Spec == Init /\ [][Next]_vars

\* The caller holds the list analyzeMarket returned and invokes it once more on
\* the same detector with the same five arguments, at the same or a later clock
\* reading.
InvokeAgain ==
    /\ pc = "returned"
    /\ pc' = "again"
    /\ now' \in { t \in Clock : t >= now }
    /\ UNCHANGED <<minConfidence, activeSetups, setupHistory, candles, indicators,
                   patterns, prediction, regime, result>>
    /\ UNCHANGED <<riskVars, patternVars, socketVars>>

InitRepeat == InitCommon /\ InitSeries /\ RiskIdle /\ PatternsIdle /\ SocketsIdle

NextRepeat == AnalyzeMarket \/ InvokeAgain

SpecRepeat == InitRepeat /\ [][NextRepeat]_vars

\* A detector whose minConfidence field has been set below the constructor's
\* 0.60, called once on the grid of snapshots.
ConfiguredMinConfidences == { 200, DefaultMinConfidence }

InitConfigured ==
    /\ minConfidence \in ConfiguredMinConfidences
    /\ now = 1700000000
    /\ activeSetups = <<>>
    /\ setupHistory = <<>>
    /\ result = <<>>
    /\ pc = "ready"
    /\ InitGrid
    /\ RiskIdle
    /\ PatternsIdle
    /\ SocketsIdle

NextConfigured == AnalyzeMarket

SpecConfigured == InitConfigured /\ [][NextConfigured]_vars

\* The arguments of the calls of a sequence: no candle or two, a snapshot that
\* scores for the trend, for a reversal or for neither, with or without a
\* pattern and a prediction.
SequenceCandles == { <<>>, FlatCandles }

SequenceIndicators ==
    { << Snapshot(2, 100000, <<101000, 100000, 99000>>, <<300, 100>>, <<1500>>, <<45>>,
                  <<>>, <<1000>>) >>,
      << Snapshot(2, 100000, <<100000, 101000, 99000>>, <<>>, <<>>, <<25>>,
                  <<50, 103000>>, <<1000>>) >>,
      << Snapshot(2, 100000, <<100000, 101000, 99000>>, <<>>, <<>>, <<45>>,
                  <<>>, <<1000>>) >> }

SequencePatterns ==
    { <<>>, <<Pattern("DOUBLE_BOTTOM", "BULLISH", 700, <<96000>>, <<104000>>)>> }

SequencePredictions == { <<>>, <<[direction |-> "LONG", confidence |-> 1000]>> }

SequenceRegimes == { [regime |-> "BULLISH_TRENDING"], [regime |-> "RANGING"] }

InitSequence ==
    /\ minConfidence = DefaultMinConfidence
    /\ now = 1700000000
    /\ activeSetups = <<>>
    /\ setupHistory = <<>>
    /\ result = <<>>
    /\ pc = "ready"
    /\ candles \in SequenceCandles
    /\ indicators \in SequenceIndicators
    /\ patterns \in SequencePatterns
    /\ prediction \in SequencePredictions
    /\ regime \in SequenceRegimes
    /\ RiskIdle
    /\ PatternsIdle
    /\ SocketsIdle

\* The caller, holding the list of the last call that returned, invokes
\* analyzeMarket on the same detector with other arguments, at the same or a
\* later clock reading.
InvokeNext ==
    /\ pc \in {"returned", "threw"}
    /\ pc' = "again"
    /\ now' \in { t \in Clock : t >= now }
    /\ candles' \in SequenceCandles
    /\ indicators' \in SequenceIndicators
    /\ patterns' \in SequencePatterns
    /\ prediction' \in SequencePredictions
    /\ regime' \in SequenceRegimes
    /\ UNCHANGED <<minConfidence, activeSetups, setupHistory, result>>
    /\ UNCHANGED <<riskVars, patternVars, socketVars>>

NextSequence == AnalyzeMarket \/ InvokeNext

SpecSequence == InitSequence /\ [][NextSequence]_vars

\* Twenty or twenty-five candles between 99.000 and 101.000 followed by a last
\* candle that closes at the given price, well-formed (high and low 1.000 from
\* the close) or a bad tick whose high stays at 101.000.
BreakoutCandles(n, close, kind) ==
    [i \in 1..(n + 1) |->
        IF i <= n THEN Candle(i, 100000, 101000, 99000)
        ELSE IF kind = "ok" THEN Candle(i, close, close + 1000, close - 1000)
        ELSE Candle(i, close, 101000, 99000)]

\* Calls whose last candle closes inside the range of the earlier ones, 0.1%
\* beyond it, or further.
InitBreakout ==
    /\ minConfidence \in MinConfidences
    /\ now \in Clock
    /\ activeSetups = <<>>
    /\ setupHistory = <<>>
    /\ result = <<>>
    /\ pc = "ready"
    /\ \E n \in {20, 25}, kind \in LastCandleKinds \ {"closeBelowLow"},
          close \in {100000, 101000, 101101, 101102, 102000, 104000, 98901, 98900, 96000},
          vr \in { <<>>, <<1000>>, <<2000>> } :
          /\ candles = BreakoutCandles(n, close, kind)
          /\ indicators = << Snapshot(n + 1, close, <<100000, 100000, 100000>>, <<>>, <<>>,
                                      <<50>>, <<>>, vr) >>
    /\ patterns \in { ps \in PatternLists :
                        ps = <<>> \/ ps[1].type \in {"BEAR_FLAG", "ASCENDING_TRIANGLE"} }
    /\ prediction = <<>>
    /\ regime = [regime |-> "RANGING"]
    /\ RiskIdle
    /\ PatternsIdle
    /\ SocketsIdle

NextBreakout == AnalyzeMarket

SpecBreakout == InitBreakout /\ [][NextBreakout]_vars

----------------------------------------------------------------------------
(* Extended rationals for the indicator engine and the risk calculator:    *)
(* [n, d] with d > 0 in lowest terms is the number n/d; [1, 0] is          *)
(* Infinity, [-1, 0] is -Infinity and [0, 0] is NaN, as IEEE division by   *)
(* zero produces them.                                                     *)

RECURSIVE GCD(_, _)
GCD(a, b) == IF b = 0 THEN a ELSE GCD(b, a % b)

Sign(x) == IF x > 0 THEN 1 ELSE IF x < 0 THEN -1 ELSE 0

Q(n, d) ==
    IF d = 0 THEN [n |-> Sign(n), d |-> 0]
    ELSE LET g == GCD(AbsInt(n), AbsInt(d))
         IN  [n |-> (Sign(d) * n) \div g, d |-> AbsInt(d) \div g]

QInt(k) == [n |-> k, d |-> 1]

QNaN == [n |-> 0, d |-> 0]

QInf == [n |-> 1, d |-> 0]

IsNaN(a) == a.d = 0 /\ a.n = 0

IsFinite(a) == a.d # 0

QAbs(a) == [n |-> AbsInt(a.n), d |-> a.d]

QNeg(a) == [n |-> -a.n, d |-> a.d]

QAdd(a, b) ==
    IF IsNaN(a) \/ IsNaN(b) THEN QNaN
    ELSE IF a.d = 0 /\ b.d = 0 THEN (IF a.n = b.n THEN a ELSE QNaN)
    ELSE IF a.d = 0 THEN a
    ELSE IF b.d = 0 THEN b
    ELSE LET g == GCD(a.d, b.d)
         IN  Q(a.n * (b.d \div g) + b.n * (a.d \div g), (a.d \div g) * b.d)

QSub(a, b) == QAdd(a, QNeg(b))

\* a * b, cancelling common factors before multiplying.
QMul(a, b) ==
    IF a.d = 0 \/ b.d = 0 THEN Q(a.n * b.n, 0)
    ELSE LET g1 == GCD(AbsInt(a.n), b.d)
             g2 == GCD(AbsInt(b.n), a.d)
         IN  Q((a.n \div g1) * (b.n \div g2), (a.d \div g2) * (b.d \div g1))

\* a / b; a zero divisor is +0, so x / 0 is Infinity, -Infinity or NaN by x's sign.
QDiv(a, b) == QMul(a, Q((IF b.n < 0 THEN -1 ELSE 1) * b.d, AbsInt(b.n)))

\* a < b; every comparison with NaN is false.
QLt(a, b) ==
    /\ ~IsNaN(a) /\ ~IsNaN(b)
    /\ IF a.d = 0 /\ b.d = 0 THEN a.n < b.n
       ELSE IF a.d = 0 THEN a.n < 0
       ELSE IF b.d = 0 THEN b.n > 0
       ELSE LET g == GCD(a.d, b.d)
            IN  a.n * (b.d \div g) < b.n * (a.d \div g)

QGt(a, b) == QLt(b, a)

\* Math.min and Math.max: NaN when an argument is NaN.
QMin(a, b) == IF IsNaN(a) \/ IsNaN(b) THEN QNaN ELSE IF QLt(b, a) THEN b ELSE a

QMax(a, b) == IF IsNaN(a) \/ IsNaN(b) THEN QNaN ELSE IF QGt(b, a) THEN b ELSE a

\* Math.ceil: the smallest integer >= a; Infinity and NaN are returned unchanged.
QCeil(a) == IF a.d = 0 THEN a ELSE QInt(-((-a.n) \div a.d))

----------------------------------------------------------------------------
(* TechnicalIndicators.  The indicator engine computes on exact rationals; *)
(* its candles carry integer prices and volumes.  Indices are JavaScript's: *)
(* element i of an array is element i + 1 of the sequence.  A loop over an *)
(* index range is evaluated as its first half followed by its second half, *)
(* which visits the indices in the loop's order.                           *)

\* The minimum candle count of calculateAll and of detectAllPatterns.
MinCandles == 50

\* Array.prototype.slice(from, to) for 0 <= from.
Slice(s, from, to) == SubSeq(s, from + 1, MinInt(to, Len(s)))

\* The || operator on numbers: the right operand replaces 0 and NaN.
QOr(a, b) == IF IsNaN(a) \/ a.n = 0 THEN b ELSE a

RECURSIVE QSum(_)
\* data.reduce((a, b) => a + b, 0)
QSum(data) ==
    IF Len(data) = 0 THEN QInt(0)
    ELSE IF Len(data) = 1 THEN data[1]
    ELSE QAdd(QSum(SubSeq(data, 1, Len(data) \div 2)),
              QSum(SubSeq(data, Len(data) \div 2 + 1, Len(data))))

\* SMA(data): 0 / 0 is NaN on an empty array.
SMA(data) == QDiv(QSum(data), QInt(Len(data)))

RECURSIVE EMARange(_, _, _, _, _)
\* The value of ema after the loop of EMA (lines 132-134) has handled the
\* indices from..to-1, entered with the value ema; NaN stays NaN.
EMARange(data, period, ema, from, to) ==
    IF IsNaN(ema) \/ from >= to THEN ema
    ELSE IF to = from + 1
    THEN QAdd(QMul(QSub(data[from + 1], ema), Q(2, period + 1)), ema)
    ELSE EMARange(data, period, EMARange(data, period, ema, from, (from + to) \div 2),
                  (from + to) \div 2, to)

\* EMA(data, period): seeded with the mean of the first period values.
EMA(data, period) ==
    EMARange(data, period, QDiv(QSum(Slice(data, 0, period)), QInt(period)), period, Len(data))

\* The default period of RSI, ADX and ATR.
DefaultPeriod == 14

\* The value RSI returns on fewer than period + 1 values (line 143).
RSIDefault == 50

\* The substitute RSI divides by when the average loss is 0 (line 171).
RSIZeroLoss == Q(1, 10000)

RECURSIVE RSISeed(_, _, _)
\* The first loop of RSI (lines 148-155): the gains and losses of changes 1..i.
RSISeed(data, i, acc) ==
    IF i = 0 THEN acc
    ELSE LET prev == RSISeed(data, i - 1, acc)
             change == QSub(data[i + 1], data[i])
         IN  IF QGt(change, QInt(0))
             THEN [prev EXCEPT !.gains = QAdd(prev.gains, change)]
             ELSE [prev EXCEPT !.losses = QSub(prev.losses, change)]

RECURSIVE RSISmooth(_, _, _, _)
\* avgGain and avgLoss after the second loop of RSI has handled index i
\* (lines 160-169); first holds them as the first loop left them.
RSISmooth(data, period, i, first) ==
    IF i <= period THEN first
    ELSE LET avg == RSISmooth(data, period, i - 1, first)
             change == QSub(data[i + 1], data[i])
             keepGain == QMul(avg.gain, QInt(period - 1))
             keepLoss == QMul(avg.loss, QInt(period - 1))
         IN  IF QGt(change, QInt(0))
             THEN [gain |-> QDiv(QAdd(keepGain, change), QInt(period)),
                   loss |-> QDiv(keepLoss, QInt(period))]
             ELSE [gain |-> QDiv(keepGain, QInt(period)),
                   loss |-> QDiv(QSub(keepLoss, change), QInt(period))]

\* RSI(data, period)
RSI(data, period) ==
    IF Len(data) < period + 1 THEN QInt(RSIDefault)
    ELSE LET sums == RSISeed(data, period, [gains |-> QInt(0), losses |-> QInt(0)])
             avg == RSISmooth(data, period, Len(data) - 1,
                              [gain |-> QDiv(sums.gains, QInt(period)),
                               loss |-> QDiv(sums.losses, QInt(period))])
             rs == QDiv(avg.gain, QOr(avg.loss, RSIZeroLoss))
         IN  QSub(QInt(100), QDiv(QInt(100), QAdd(QInt(1), rs)))

\* The periods of MACD: fast and slow EMA, and the EMA of the signal line.
MACDFast == 12

MACDSlow == 26

MACDSignalPeriod == 9

RECURSIVE MACDLineRange(_, _, _)
\* The values the loop of MACD pushes onto macdLine for the indices from..to-1
\* (lines 185-189).
MACDLineRange(data, from, to) ==
    IF from >= to THEN <<>>
    ELSE IF to = from + 1
    THEN << QSub(EMA(Slice(data, 0, from + 1), MACDFast), EMA(Slice(data, 0, from + 1), MACDSlow)) >>
    ELSE MACDLineRange(data, from, (from + to) \div 2)
            \o MACDLineRange(data, (from + to) \div 2, to)

\* macdLine of MACD: one value per index 26..length-1.
MACDLine(data) == MACDLineRange(data, MACDSlow, Len(data))

\* MACD(data)
MACD(data) ==
    LET macd == QSub(EMA(data, MACDFast), EMA(data, MACDSlow))
        macdLine == MACDLine(data)
        signal == IF Len(macdLine) >= MACDSignalPeriod
                  THEN EMA(macdLine, MACDSignalPeriod) ELSE macd
    IN  [macd |-> macd, signal |-> signal, histogram |-> QSub(macd, signal)]

\* data.map(val => Math.pow(val - middle, 2))
SquaredDiffs(data, middle) ==
    [i \in 1..Len(data) |-> QMul(QSub(data[i], middle), QSub(data[i], middle))]

\* The number q + k * Math.sqrt(r), kept exact.
Surd(q, k, r) == [q |-> q, k |-> k, r |-> r]

\* BollingerBands(data) with stdDev = 2: the bands are middle +- 2 * sqrt(variance).
BollingerBands(data) ==
    LET middle == SMA(data)
        variance == QDiv(QSum(SquaredDiffs(data, middle)), QInt(Len(data)))
    IN  [upper |-> Surd(middle, QInt(2), variance), middle |-> middle,
         lower |-> Surd(middle, QInt(-2), variance)]

\* (close - bb.lower) / (bb.upper - bb.lower) of line 60: with sd the square
\* root of the variance r this is (close - middle + 2 sd) / (4 sd), which is
\* 1/2 + (close - middle) / (4 r) * sd when r > 0 and a division by 0 when r = 0.
BollingerPosition(close, bb) ==
    LET r == bb.upper.r
        offset == QSub(close, bb.middle)
    IN  IF IsFinite(r) /\ r.n > 0
        THEN Surd(Q(1, 2), QDiv(offset, QMul(QInt(4), r)), r)
        ELSE Surd(QDiv(offset, QSub(bb.upper.q, bb.lower.q)), QInt(0), QInt(0))

RECURSIVE QMaxOf(_)
\* Math.max(...values) of a non-empty array.
QMaxOf(s) == IF Len(s) = 1 THEN s[1] ELSE QMax(QMaxOf(SubSeq(s, 1, Len(s) - 1)), s[Len(s)])

RECURSIVE QMinOf(_)
QMinOf(s) == IF Len(s) = 1 THEN s[1] ELSE QMin(QMinOf(SubSeq(s, 1, Len(s) - 1)), s[Len(s)])

\* Stochastic(highs, lows, closes): d is a copy of k.
Stochastic(highs, lows, closes) ==
    LET high == QMaxOf(highs)
        low == QMinOf(lows)
        close == closes[Len(closes)]
        k == QMul(QDiv(QSub(close, low), QOr(QSub(high, low), QInt(1))), QInt(100))
    IN  [k |-> k, d |-> k]

\* trueRange at index i >= 1 (lines 247-251 and 269-273).
TrueRange(highs, lows, closes, i) ==
    QMax(QMax(QSub(highs[i + 1], lows[i + 1]), QAbs(QSub(highs[i + 1], closes[i]))),
         QAbs(QSub(lows[i + 1], closes[i])))

RECURSIVE ADXSums(_, _, _, _)
\* The loop of ADX (lines 240-253): plusDM, minusDM and tr over indices 1..i.
ADXSums(highs, lows, closes, i) ==
    IF i = 0 THEN [plusDM |-> QInt(0), minusDM |-> QInt(0), tr |-> QInt(0)]
    ELSE LET prev == ADXSums(highs, lows, closes, i - 1)
             highDiff == QSub(highs[i + 1], highs[i])
             lowDiff == QSub(lows[i], lows[i + 1])
         IN  [plusDM |-> QAdd(prev.plusDM, QMax(highDiff, QInt(0))),
              minusDM |-> QAdd(prev.minusDM, QMax(lowDiff, QInt(0))),
              tr |-> QAdd(prev.tr, TrueRange(highs, lows, closes, i))]

\* ADX(highs, lows, closes, period): the simplified ADX, 0 on too few values.
ADX(highs, lows, closes, period) ==
    IF Len(highs) < period + 1 THEN QInt(0)
    ELSE LET sums == ADXSums(highs, lows, closes, Len(highs) - 1)
             plusDI == QMul(QDiv(sums.plusDM, sums.tr), QInt(100))
             minusDI == QMul(QDiv(sums.minusDM, sums.tr), QInt(100))
         IN  QMul(QDiv(QAbs(QSub(plusDI, minusDI)), QOr(QAdd(plusDI, minusDI), QInt(1))),
                  QInt(100))

RECURSIVE ATRSum(_, _, _, _)
ATRSum(highs, lows, closes, i) ==
    IF i = 0 THEN QInt(0)
    ELSE QAdd(ATRSum(highs, lows, closes, i - 1), TrueRange(highs, lows, closes, i))

\* ATR(highs, lows, closes): the mean true range over the given values.
ATR(highs, lows, closes) ==
    QDiv(ATRSum(highs, lows, closes, Len(highs) - 1), QInt(Len(highs) - 1))

\* candles.map(c => c.close) and its siblings, as numbers of the engine.
QCloses(cs) == [i \in 1..Len(cs) |-> QInt(cs[i].close)]

QHighs(cs) == [i \in 1..Len(cs) |-> QInt(cs[i].high)]

QLows(cs) == [i \in 1..Len(cs) |-> QInt(cs[i].low)]

QVolumes(cs) == [i \in 1..Len(cs) |-> QInt(cs[i].volume)]

\* The first index at which each group of fields is computed (lines 34-100).
Ema9From == 9

Ema20From == 20

Ema50From == 50

Sma200From == 200

RsiFrom == 14

MacdFrom == 26

ObvFrom == 1

\* A field that is set when the condition holds and left undefined otherwise.
When(cond, value) == IF cond THEN <<value>> ELSE <<>>

\* indicators[i - 1]?.obv || 0
PrevOBV(inds, i) ==
    IF i >= 1 /\ i <= Len(inds) /\ inds[i].obv # <<>> THEN QOr(inds[i].obv[1], QInt(0))
    ELSE QInt(0)

\* An obv that forgets the running total.
OBVAt_NoCarry(cs, inds, i) ==
    IF cs[i + 1].close > cs[i].close THEN QInt(cs[i + 1].volume)
    ELSE IF cs[i + 1].close < cs[i].close THEN QInt(-cs[i + 1].volume)
    ELSE QInt(0)

\* The obv of index i >= 1 (lines 101-108).
OBVAt(cs, inds, i) ==
    LET prevOBV == PrevOBV(inds, i)
    IN  IF cs[i + 1].close > cs[i].close THEN QAdd(prevOBV, QInt(cs[i + 1].volume))
        ELSE IF cs[i + 1].close < cs[i].close THEN QSub(prevOBV, QInt(cs[i + 1].volume))
        ELSE prevOBV

\* The snapshot of index i (the body of the loop of calculateAll), given the
\* snapshots inds of the indices before it.
IndicatorAt(cs, inds, i) ==
    LET closes == QCloses(cs)
        highs == QHighs(cs)
        lows == QLows(cs)
        volumes == QVolumes(cs)
        macd == MACD(Slice(closes, 0, i + 1))
        bb == BollingerBands(Slice(closes, i - 19, i + 1))
        stoch == Stochastic(Slice(highs, i - 13, i + 1), Slice(lows, i - 13, i + 1),
                            Slice(closes, i - 13, i + 1))
        avgVolume == SMA(Slice(volumes, i - 19, i + 1))
    IN  [timestamp |-> cs[i + 1].timestamp,
         price |-> <<QInt(cs[i + 1].close)>>,
         ema9 |-> When(i >= Ema9From, EMA(Slice(closes, 0, i + 1), 9)),
         ema20 |-> When(i >= Ema20From, EMA(Slice(closes, 0, i + 1), 20)),
         ema50 |-> When(i >= Ema50From, EMA(Slice(closes, 0, i + 1), 50)),
         sma20 |-> When(i >= Ema20From, SMA(Slice(closes, i - 19, i + 1))),
         sma50 |-> When(i >= Ema50From, SMA(Slice(closes, i - 49, i + 1))),
         sma200 |-> When(i >= Sma200From, SMA(Slice(closes, i - 199, i + 1))),
         rsi |-> When(i >= RsiFrom,
                      RSI(Slice(closes, MaxInt(0, i - 14), i + 1), DefaultPeriod)),
         macd |-> When(i >= MacdFrom, macd.macd),
         macdSignal |-> When(i >= MacdFrom, macd.signal),
         macdHistogram |-> When(i >= MacdFrom, macd.histogram),
         bollingerUpper |-> When(i >= Ema20From, bb.upper),
         bollingerMiddle |-> When(i >= Ema20From, bb.middle),
         bollingerLower |-> When(i >= Ema20From, bb.lower),
         bollingerBand |-> When(i >= Ema20From, BollingerPosition(QInt(cs[i + 1].close), bb)),
         stochK |-> When(i >= RsiFrom, stoch.k),
         stochD |-> When(i >= RsiFrom, stoch.d),
         adx |-> When(i >= RsiFrom,
                      ADX(Slice(highs, MaxInt(0, i - 14), i + 1),
                          Slice(lows, MaxInt(0, i - 14), i + 1),
                          Slice(closes, MaxInt(0, i - 14), i + 1), DefaultPeriod)),
         atr |-> When(i >= RsiFrom,
                      ATR(Slice(highs, i - 13, i + 1), Slice(lows, i - 13, i + 1),
                          Slice(closes, i - 13, i + 1))),
         volumeRatio |-> When(i >= Ema20From, QDiv(QInt(cs[i + 1].volume), avgVolume)),
         volumeMA |-> When(i >= Ema20From, avgVolume),
         obv |-> When(i >= ObvFrom, OBVAt(cs, inds, i))]

RECURSIVE IndicatorRange(_, _, _, _)
\* The list after the loop of calculateAll (lines 27-112) has pushed the
\* snapshots of the indices from..to-1 onto inds, which holds those before from.
IndicatorRange(cs, inds, from, to) ==
    IF from >= to THEN inds
    ELSE IF to = from + 1 THEN Append(inds, IndicatorAt(cs, inds, from))
    ELSE LET half == IndicatorRange(cs, inds, from, (from + to) \div 2)
         IN  IF Len(half) = 0 THEN half
             ELSE IndicatorRange(cs, half, (from + to) \div 2, to)

\* calculateAll(candles): nothing on fewer than MinCandles candles.
CalcAll(cs) == IF Len(cs) < MinCandles THEN <<>> ELSE IndicatorRange(cs, <<>>, 0, Len(cs))

----------------------------------------------------------------------------
(* The analysis pipeline: calculateAll and detectAllPatterns run on the    *)
(* candle list, then analyzeMarket runs on what they returned.             *)

\* calculateAll(candles): the caller receives the snapshot list.
CalculateAll ==
    /\ pc = "raw"
    /\ indicators' = CalcAll(candles)
    /\ pc' = "indicated"
    /\ UNCHANGED <<minConfidence, activeSetups, setupHistory, candles, patterns,
                   prediction, regime, now, result>>
    /\ UNCHANGED <<riskVars, patternVars, socketVars>>

\* n candles whose closes wander around 100.000.
ShortCandles(n) ==
    [i \in 1..n |-> Candle(i, 100000 + 1000 * ((i * 7) % 5),
                           100000 + 1000 * ((i * 7) % 5) + 1000,
                           100000 + 1000 * ((i * 7) % 5) - 1000)]

\* Candle lists shorter than MinCandles: empty, one candle, and up to one fewer
\* than the minimum, besides the twenty-candle series.
InsufficientCandles ==
    { ShortCandles(n) : n \in {0, 1, 2, 14, 26, MinCandles - 1} }
    \cup { SeriesCandles(closes, "ok") : closes \in CloseShapes }

InitPipeline ==
    /\ minConfidence \in MinConfidences
    /\ now \in Clock
    /\ activeSetups = <<>>
    /\ setupHistory = <<>>
    /\ result = <<>>
    /\ pc = "raw"
    /\ candles \in InsufficientCandles
    /\ indicators = <<>>
    /\ patterns = <<>>
    /\ prediction \in Predictions
    /\ regime \in Regimes
    /\ RiskIdle
    /\ PatternsIdle
    /\ SocketsIdle

----------------------------------------------------------------------------
(* The indicator engine on its own: calculateAll on candle lists on both   *)
(* sides of the minimum count.                                             *)

\* A candle of the indicator engine: it closes at c on volume v, its high and
\* low one unit away.
EngineCandle(t, c, v) ==
    [timestamp |-> t, open |-> c, high |-> c + 1, low |-> c - 1, close |-> c, volume |-> v]

\* How the first nine closes leave the base price: not at all, or by moves
\* that cancel out over the nine.
EarlyShapes ==
    { [i \in 1..9 |-> 0], <<1, 2, -1, -2, 0, 1, -1, 0, 0>>, <<-1, -1, 2, 0, 0, 1, -2, 1, 0>> }

\* How the last two closes leave the base price.
TailShapes == { <<0, 0>>, <<1, 2>>, <<-1, -2>>, <<-1, 0>> }

\* Volumes: the same on every candle, or wandering between 1 and 5.
VolumeShapes == { "flat", "wander" }

\* The numbers of candles: none, one, around the minimum count and beyond it.
CandleCounts == { 0, 1, 2, 14, MinCandles - 1, MinCandles, MinCandles + 1 }

\* The close of candle i (from 1) of n: the base price 10 and the shapes' moves.
EngineClose(n, early, tail, i) ==
    10 + (IF i <= 9 THEN early[i] ELSE IF i > n - 2 THEN tail[i - (n - 2)] ELSE 0)

\* n candles, one minute apart.
EngineCandles(n, early, tail, volume) ==
    [i \in 1..n |->
        EngineCandle(1000 + 60 * (i - 1), EngineClose(n, early, tail, i),
                     IF volume = "flat" THEN 10 ELSE 1 + ((i * 7) % 5))]

InitIndicators ==
    /\ minConfidence = DefaultMinConfidence
    /\ now = 1700000000
    /\ activeSetups = <<>>
    /\ setupHistory = <<>>
    /\ result = <<>>
    /\ pc = "raw"
    /\ \E n \in CandleCounts, early \in EarlyShapes, tail \in TailShapes,
          volume \in VolumeShapes :
          candles = EngineCandles(n, early, tail, volume)
    /\ indicators = <<>>
    /\ patterns = <<>>
    /\ prediction = <<>>
    /\ regime = [regime |-> "RANGING"]
    /\ RiskIdle
    /\ PatternsIdle
    /\ SocketsIdle

NextIndicators == CalculateAll

SpecIndicators == InitIndicators /\ [][NextIndicators]_vars

----------------------------------------------------------------------------
(* RiskCalculator.                                                         *)

\* A position size whose leverage is rounded down instead of up.
CalcPositionSize_FloorLeverage(entry, stopLoss, accountSize, riskPercent) ==
    LET riskAmount == QMul(accountSize, QDiv(riskPercent, QInt(100)))
        stopDistance == QAbs(QSub(entry, stopLoss))
        quantity == QDiv(riskAmount, stopDistance)
        notionalValue == QMul(quantity, entry)
        leverage == QDiv(notionalValue, accountSize)
    IN  [quantity |-> quantity,
         notionalValue |-> notionalValue,
         riskAmount |-> riskAmount,
         stopDistance |-> stopDistance,
         stopPercent |-> QMul(QDiv(stopDistance, entry), QInt(100)),
         leverage |-> IF leverage.d = 0 THEN leverage ELSE QInt(leverage.n \div leverage.d),
         maxLoss |-> riskAmount]

\* calculatePositionSize(entry, stopLoss, accountSize, riskPercent)
CalcPositionSize(entry, stopLoss, accountSize, riskPercent) ==
    LET riskAmount == QMul(accountSize, QDiv(riskPercent, QInt(100)))
        stopDistance == QAbs(QSub(entry, stopLoss))
        stopPercent == QMul(QDiv(stopDistance, entry), QInt(100))
        quantity == QDiv(riskAmount, stopDistance)
        notionalValue == QMul(quantity, entry)
        leverage == QDiv(notionalValue, accountSize)
    IN  [quantity |-> quantity,
         notionalValue |-> notionalValue,
         riskAmount |-> riskAmount,
         stopDistance |-> stopDistance,
         stopPercent |-> stopPercent,
         leverage |-> QCeil(leverage),
         maxLoss |-> riskAmount]

\* calculateRiskReward(entry, stopLoss, takeProfit)
CalcRiskReward(entry, stopLoss, takeProfit) ==
    LET risk == QAbs(QSub(entry, stopLoss))
        reward == QAbs(QSub(takeProfit, entry))
    IN  [risk |-> risk,
         reward |-> reward,
         ratio |-> QDiv(reward, risk),
         riskPercent |-> QMul(QDiv(risk, entry), QInt(100)),
         rewardPercent |-> QMul(QDiv(reward, entry), QInt(100))]

\* Math.max(0, Math.min(1, x)) * 100
ClampedPercent(x) == QMul(QMax(QInt(0), QMin(QInt(1), x)), QInt(100))

\* calculateKellyCriterion(winRate, avgWin, avgLoss)
CalcKellyCriterion(winRate, avgWin, avgLoss) ==
    LET lossRate == QSub(QInt(1), winRate)
        kelly == QSub(QDiv(winRate, avgLoss), QDiv(lossRate, avgWin))
        fractionalKelly == QMul(kelly, Q(1, 2))
    IN  [fullKelly |-> ClampedPercent(kelly),
         halfKelly |-> ClampedPercent(fractionalKelly),
         recommended |-> ClampedPercent(fractionalKelly)]

\* calculateBreakEven(entry, direction, feePercent = 0.1)
CalcBreakEven(entry, direction) ==
    LET feeCost == QMul(entry, QDiv(Q(1, 10), QInt(100)))
    IN  IF direction = "LONG" THEN QAdd(entry, QMul(feeCost, QInt(2)))
        ELSE QSub(entry, QMul(feeCost, QInt(2)))

\* calculatePartialTakeProfits(entry, finalTarget, direction)
CalcPartialTakeProfits(entry, finalTarget, direction) ==
    LET distance == QAbs(QSub(finalTarget, entry))
        At(f) == IF direction = "LONG" THEN QAdd(entry, QMul(distance, f))
                 ELSE QSub(entry, QMul(distance, f))
    IN  << [percent |-> 25, price |-> At(Q(1, 2)), ratio |-> Q(1, 2)],
           [percent |-> 25, price |-> At(Q(3, 4)), ratio |-> Q(3, 4)],
           [percent |-> 50, price |-> finalTarget, ratio |-> QInt(1)] >>

\* A score whose leverage term is 10 - leverage / 10.
TradeScoreSum_LeverageTenths(confidence, ratio, stopPercent, leverage) ==
    QAdd(QAdd(QAdd(QMul(confidence, QInt(40)),
                   QMin(QInt(30), QMul(QDiv(ratio, QInt(3)), QInt(30)))),
              QMax(QInt(0), QSub(QInt(20), QMul(stopPercent, QInt(5))))),
         QMax(QInt(0), QSub(QInt(10), QDiv(leverage, QInt(10)))))

\* The four terms of calculateTradeScore before the final clamp.
TradeScoreSum(confidence, ratio, stopPercent, leverage) ==
    QAdd(QAdd(QAdd(QMul(confidence, QInt(40)),
                   QMin(QInt(30), QMul(QDiv(ratio, QInt(3)), QInt(30)))),
              QMax(QInt(0), QSub(QInt(20), QMul(stopPercent, QInt(5))))),
         QMax(QInt(0), QSub(QInt(10), leverage)))

\* calculateTradeScore(setup, rr, position): Math.min(100, Math.max(0, score))
CalcTradeScore(confidence, ratio, stopPercent, leverage) ==
    QMin(QInt(100), QMax(QInt(0), TradeScoreSum(confidence, ratio, stopPercent, leverage)))

LowRatio(ratio) == QLt(ratio, Q(3, 2))

WideStop(stopPercent) == QGt(stopPercent, QInt(3))

ExcessLeverage(leverage) == QGt(leverage, QInt(10))

LowConfidence(confidence) == QLt(confidence, Q(65, 100))

\* The action of getTradeRecommendation: four checks in source order, each
\* overwriting the recommendation of the ones before it.
RecommendedAction(confidence, ratio, stopPercent, leverage) ==
    LET r1 == IF LowRatio(ratio) THEN "REDUCE_SIZE" ELSE "TAKE_TRADE"
        r2 == IF WideStop(stopPercent) THEN "REDUCE_SIZE" ELSE r1
        r3 == IF ExcessLeverage(leverage) THEN "SKIP_TRADE" ELSE r2
        r4 == IF LowConfidence(confidence) THEN "WAIT" ELSE r3
    IN  r4

\* getTradeRecommendation(setup, rr, position)
TradeRecommendation(confidence, ratio, stopPercent, leverage) ==
    [action |-> RecommendedAction(confidence, ratio, stopPercent, leverage),
     issues |-> Sig(LowRatio(ratio), "Risk/Reward below 1.5:1")
                \o Sig(WideStop(stopPercent), "Stop loss too wide (>3%)")
                \o Sig(ExcessLeverage(leverage), "Excessive leverage required")
                \o Sig(LowConfidence(confidence), "Low setup confidence"),
     score |-> CalcTradeScore(confidence, ratio, stopPercent, leverage)]

\* generateRiskReport(setup, accountSize, riskPercent)
RiskReport(setup, accountSize, riskPercent) ==
    LET position == CalcPositionSize(setup.entry, setup.stopLoss, accountSize, riskPercent)
        rr == CalcRiskReward(setup.entry, setup.stopLoss, setup.takeProfit)
    IN  [setup |-> setup,
         position |-> position,
         riskReward |-> rr,
         breakEven |-> CalcBreakEven(setup.entry, setup.direction),
         partials |-> CalcPartialTakeProfits(setup.entry, setup.takeProfit, setup.direction),
         recommendation |->
             TradeRecommendation(setup.confidence, rr.ratio, position.stopPercent,
                                 position.leverage)]

Calling(op) == riskCall.op = op /\ riskOut = <<>>

CalculatePositionSize ==
    /\ Calling("calculatePositionSize")
    /\ riskOut' = << CalcPositionSize(riskCall.entry, riskCall.stopLoss,
                                      riskCall.accountSize, riskCall.riskPercent) >>
    /\ UNCHANGED <<riskCall, detectorVars, patternVars, socketVars>>

CalculateRiskReward ==
    /\ Calling("calculateRiskReward")
    /\ riskOut' = << CalcRiskReward(riskCall.entry, riskCall.stopLoss, riskCall.takeProfit) >>
    /\ UNCHANGED <<riskCall, detectorVars, patternVars, socketVars>>

CalculateKellyCriterion ==
    /\ Calling("calculateKellyCriterion")
    /\ riskOut' = << CalcKellyCriterion(riskCall.winRate, riskCall.avgWin, riskCall.avgLoss) >>
    /\ UNCHANGED <<riskCall, detectorVars, patternVars, socketVars>>

GenerateRiskReport ==
    /\ Calling("generateRiskReport")
    /\ riskOut' = << RiskReport(riskCall.setup, riskCall.accountSize, riskCall.riskPercent) >>
    /\ UNCHANGED <<riskCall, detectorVars, patternVars, socketVars>>

GetTradeRecommendation ==
    /\ Calling("getTradeRecommendation")
    /\ riskOut' = << TradeRecommendation(riskCall.confidence, riskCall.ratio,
                                         riskCall.stopPercent, riskCall.leverage) >>
    /\ UNCHANGED <<riskCall, detectorVars, patternVars, socketVars>>

CalculateTradeScore ==
    /\ Calling("calculateTradeScore")
    /\ riskOut' = << CalcTradeScore(riskCall.confidence, riskCall.ratio,
                                    riskCall.stopPercent, riskCall.leverage) >>
    /\ UNCHANGED <<riskCall, detectorVars, patternVars, socketVars>>

----------------------------------------------------------------------------
(* The calls made to the risk calculator.                                  *)

\* A detector on which no call is in progress.
DetectorIdle ==
    /\ minConfidence = DefaultMinConfidence
    /\ activeSetups = <<>> /\ setupHistory = <<>> /\ result = <<>>
    /\ candles = <<>> /\ indicators = <<>> /\ patterns = <<>>
    /\ prediction = <<>> /\ regime = [regime |-> "RANGING"]
    /\ now = 1700000000
    /\ pc = "idle"

RiskEntries == { 100, 42800 }

\* Distance of the stop below the entry, in units of 0.05% of the entry: equal to
\* the entry, 0.05%, 1%, 2% and 4% below it, 1% and 2% above it.
StopOffsets == { 0, 1, 20, 30, 40, 80, -20, -40 }

\* Distance of the target above the entry, in the same units.
TargetOffsets == { 0, 30, 60, 120, -60 }

\* The price at k units of 0.05% from the entry.
OffsetPrice(entry, k) == Q(entry * (2000 + k), 2000)

AccountSizes == { 1000, 10000 }

\* Largest riskPercent (whole percent) a call is made with.
MaxRiskPercent == 2

RiskPercents == 1..MaxRiskPercent

Confidences == { Q(60, 100), Q(65, 100), Q(82, 100), QInt(1) }

\* rr.ratio, position.stopPercent and position.leverage as the two calculators
\* can return them.
Ratios == { QInt(3), QInt(1), Q(3, 2), QInt(5), QInt(0), QInf, QNaN }

StopPercents == { Q(93, 100), QInt(0), QInt(3), QInt(5) }

\* Largest finite leverage a direct call is made with.
MaxLeverage == 11

Leverages == { QInt(k) : k \in 0..MaxLeverage } \cup { QInf }

\* Win rates in [0, 1]; average win and loss as fractions (0.025, 0.01) and as
\* multiples of the stake.
WinRates == { QInt(0), Q(1, 2), Q(55, 100), QInt(1) }

AvgWins == { Q(25, 1000), QInt(1), Q(5, 2) }

AvgLosses == { Q(1, 100), QInt(1), QInt(2) }

RiskSetups ==
    { [entry |-> QInt(e), stopLoss |-> OffsetPrice(e, -s), takeProfit |-> OffsetPrice(e, t),
       direction |-> d, confidence |-> c] :
        e \in RiskEntries, s \in StopOffsets, t \in TargetOffsets,
        d \in {"LONG", "SHORT"}, c \in Confidences }

RiskCalls ==
    { [op |-> "calculatePositionSize", entry |-> QInt(e), stopLoss |-> OffsetPrice(e, -s),
       accountSize |-> QInt(a), riskPercent |-> QInt(r)] :
        e \in RiskEntries, s \in StopOffsets, a \in AccountSizes, r \in RiskPercents }
    \cup
    { [op |-> "calculateRiskReward", entry |-> QInt(e), stopLoss |-> OffsetPrice(e, -s),
       takeProfit |-> OffsetPrice(e, t)] :
        e \in RiskEntries, s \in StopOffsets, t \in TargetOffsets }
    \cup
    { [op |-> "calculateKellyCriterion", winRate |-> w, avgWin |-> g, avgLoss |-> l] :
        w \in WinRates, g \in AvgWins, l \in AvgLosses }
    \cup
    { [op |-> "generateRiskReport", setup |-> su, accountSize |-> QInt(a),
       riskPercent |-> QInt(r)] :
        su \in RiskSetups, a \in AccountSizes, r \in RiskPercents }
    \cup
    { [op |-> o, confidence |-> c, ratio |-> q, stopPercent |-> sp, leverage |-> l] :
        o \in {"getTradeRecommendation", "calculateTradeScore"},
        c \in Confidences, q \in Ratios, sp \in StopPercents, l \in Leverages }

InitRisk == DetectorIdle /\ PatternsIdle /\ SocketsIdle /\ riskCall \in RiskCalls /\ riskOut = <<>>

NextRisk ==
    \/ CalculatePositionSize
    \/ CalculateRiskReward
    \/ CalculateKellyCriterion
    \/ GenerateRiskReport
    \/ GetTradeRecommendation
    \/ CalculateTradeScore

SpecRisk == InitRisk /\ [][NextRisk]_vars

----------------------------------------------------------------------------
(* PatternRecognition: the peak and trough helpers.  Indices are           *)
(* JavaScript's.                                                           *)

\* data[i] is not a peak when another value of i - period .. i + period reaches it.
\* A peak test that lets ties through.
PeakAt_TiesCount(data, i, period) ==
    \A j \in (i - period)..(i + period) : j # i => data[j + 1] <= data[i + 1]

PeakAt(data, i, period) ==
    \A j \in (i - period)..(i + period) : j # i => data[j + 1] < data[i + 1]

TroughAt(data, i, period) ==
    \A j \in (i - period)..(i + period) : j # i => data[j + 1] > data[i + 1]

\* The {index, value} records pushed for the indices i..last, in index order.
RECURSIVE Extrema(_, _, _, _, _)
Extrema(data, i, last, period, wantPeak) ==
    IF i > last THEN <<>>
    ELSE (IF (wantPeak /\ PeakAt(data, i, period)) \/ (~wantPeak /\ TroughAt(data, i, period))
          THEN << [index |-> i, value |-> data[i + 1]] >> ELSE <<>>)
         \o Extrema(data, i + 1, last, period, wantPeak)

\* findPeaks(data, period): the loop runs over period <= i < length - period.
FindPeaks(data, period) == Extrema(data, period, Len(data) - period - 1, period, TRUE)

\* findTroughs(data, period)
FindTroughs(data, period) == Extrema(data, period, Len(data) - period - 1, period, FALSE)

\* The window of detectDoubleBottom, the default period of findTroughs, the
\* candles left unscanned at the end, and the thresholds of the test.
DoubleBottomWindow == 30

DefaultExtremaPeriod == 5

DoubleBottomTail == 5

DoubleBottomTolerance == Q(15, 1000)

DoubleBottomMinGap == 10

DoubleBottomConfidence == 700

RECURSIVE MaxOf(_)
\* Math.max(...data) of a non-empty list.
MaxOf(data) ==
    IF Len(data) = 1 THEN data[1] ELSE MaxInt(MaxOf(SubSeq(data, 1, Len(data) - 1)), data[Len(data)])

\* The two last troughs of the thirty lows before candle i, when there are two.
LastTroughs(cs, i) ==
    LastK(FindTroughs(Lows(Slice(cs, i - DoubleBottomWindow, i)), DefaultExtremaPeriod), 2)

\* The test on the window that ends before candle i: two troughs, the last two
\* less than 1.5% apart in value and more than ten candles apart.
DoubleBottomAt(cs, i) ==
    LET troughs == LastTroughs(cs, i)
    IN  /\ Len(troughs) >= 2
        /\ QLt(QDiv(QInt(AbsInt(troughs[1].value - troughs[2].value)), QInt(troughs[1].value)),
               DoubleBottomTolerance)
        /\ troughs[2].index - troughs[1].index > DoubleBottomMinGap

\* The pattern pushed for candle i.
DoubleBottomPattern(cs, i) ==
    LET lows == Lows(Slice(cs, i - DoubleBottomWindow, i))
        troughs == LastTroughs(cs, i)
    IN  [type |-> "DOUBLE_BOTTOM", direction |-> "BULLISH",
         confidence |-> DoubleBottomConfidence,
         level |-> Q(troughs[1].value + troughs[2].value, 2),
         target |-> troughs[1].value + (MaxOf(lows) - troughs[1].value) * 2,
         timestamp |-> cs[i + 1].timestamp]

\* detectDoubleBottom(candles): the loop runs over 30 <= i < length - 5 and the
\* last pattern pushed is returned.
DetectDoubleBottom(cs) ==
    LET pushed == { i \in DoubleBottomWindow..(Len(cs) - DoubleBottomTail - 1) :
                      DoubleBottomAt(cs, i) }
    IN  IF pushed = {} THEN <<>>
        ELSE << DoubleBottomPattern(cs, CHOOSE i \in pushed : \A k \in pushed : k <= i) >>

\* The window of detectHeadAndShoulders, the candles it leaves unscanned at the
\* end, its tolerance on the shoulders and its confidence.
ShouldersWindow == 40

ShouldersTail == 10

ShouldersTolerance == Q(2, 100)

ShouldersConfidence == 750

\* The three last peaks of the forty highs before candle i, when there are three.
LastPeaks(cs, i, window, k) ==
    LastK(FindPeaks(Highs(Slice(cs, i - window, i)), DefaultExtremaPeriod), k)

\* The test on the window that ends before candle i: the middle one of the
\* three last peaks is the highest and the outer two are less than 2% apart.
HeadAndShouldersAt(cs, i) ==
    LET peaks == LastPeaks(cs, i, ShouldersWindow, 3)
    IN  /\ Len(peaks) >= 3
        /\ peaks[2].value > peaks[1].value
        /\ peaks[2].value > peaks[3].value
        /\ QLt(QDiv(QInt(AbsInt(peaks[1].value - peaks[3].value)), QInt(peaks[1].value)),
               ShouldersTolerance)

HeadAndShouldersPattern(cs, i) ==
    LET peaks == LastPeaks(cs, i, ShouldersWindow, 3)
        neckline == MinInt(peaks[1].value, peaks[3].value)
    IN  [type |-> "HEAD_AND_SHOULDERS", direction |-> "BEARISH",
         confidence |-> ShouldersConfidence,
         startIndex |-> i - ShouldersWindow + peaks[1].index,
         endIndex |-> i - ShouldersWindow + peaks[3].index,
         neckline |-> neckline,
         target |-> peaks[2].value - (peaks[2].value - neckline) * 2,
         timestamp |-> cs[i + 1].timestamp]

\* detectHeadAndShoulders(candles): the loop runs over 40 <= i < length - 10 and
\* the last pattern pushed is returned.
DetectHeadAndShoulders(cs) ==
    LET pushed == { i \in ShouldersWindow..(Len(cs) - ShouldersTail - 1) :
                      HeadAndShouldersAt(cs, i) }
    IN  IF pushed = {} THEN <<>>
        ELSE << HeadAndShouldersPattern(cs, CHOOSE i \in pushed : \A k \in pushed : k <= i) >>

RECURSIVE MinOf(_)
\* Math.min(...data) of a non-empty list.
MinOf(data) ==
    IF Len(data) = 1 THEN data[1] ELSE MinInt(MinOf(SubSeq(data, 1, Len(data) - 1)), data[Len(data)])

\* The test of detectDoubleTop on the window that ends before candle i.
DoubleTopAt(cs, i) ==
    LET peaks == LastPeaks(cs, i, DoubleBottomWindow, 2)
    IN  /\ Len(peaks) >= 2
        /\ QLt(QDiv(QInt(AbsInt(peaks[1].value - peaks[2].value)), QInt(peaks[1].value)),
               DoubleBottomTolerance)
        /\ peaks[2].index - peaks[1].index > DoubleBottomMinGap

DoubleTopPattern(cs, i) ==
    LET highs == Highs(Slice(cs, i - DoubleBottomWindow, i))
        peaks == LastPeaks(cs, i, DoubleBottomWindow, 2)
    IN  [type |-> "DOUBLE_TOP", direction |-> "BEARISH",
         confidence |-> DoubleBottomConfidence,
         level |-> Q(peaks[1].value + peaks[2].value, 2),
         target |-> peaks[1].value - (peaks[1].value - MinOf(highs)) * 2,
         timestamp |-> cs[i + 1].timestamp]

\* detectDoubleTop(candles): the same scan as detectDoubleBottom, on the highs.
DetectDoubleTop(cs) ==
    LET pushed == { i \in DoubleBottomWindow..(Len(cs) - DoubleBottomTail - 1) :
                      DoubleTopAt(cs, i) }
    IN  IF pushed = {} THEN <<>>
        ELSE << DoubleTopPattern(cs, CHOOSE i \in pushed : \A k \in pushed : k <= i) >>

RECURSIVE IntSum(_)
\* The sum of a list of integers.
IntSum(data) ==
    IF Len(data) = 0 THEN 0
    ELSE IF Len(data) = 1 THEN data[1]
    ELSE IntSum(SubSeq(data, 1, Len(data) \div 2))
         + IntSum(SubSeq(data, Len(data) \div 2 + 1, Len(data)))

\* calculateTrendline(data): the least-squares line through (i, data[i]),
\* i from 0.
CalculateTrendline(data) ==
    LET n == Len(data)
        sumX == IntSum([k \in 1..n |-> k - 1])
        sumY == IntSum(data)
        sumXY == IntSum([k \in 1..n |-> (k - 1) * data[k]])
        sumXX == IntSum([k \in 1..n |-> (k - 1) * (k - 1)])
        slope == QDiv(QInt(n * sumXY - sumX * sumY), QInt(n * sumXX - sumX * sumX))
    IN  [slope |-> slope,
         intercept |-> QDiv(QSub(QInt(sumY), QMul(slope, QInt(sumX))), QInt(n))]

TrendWindow == 40

TriangleConfidence == 650

SymmetricConfidence == 600

\* detectTriangles(candles): nothing under forty candles; otherwise the three
\* tests run one after the other on the trendlines of the last forty highs and
\* lows.
DetectTriangles(cs) ==
    IF Len(cs) < TrendWindow THEN <<>>
    ELSE
    LET subset == LastK(cs, TrendWindow)
        upperTrend == CalculateTrendline(Highs(subset))
        lowerTrend == CalculateTrendline(Lows(subset))
        latest == cs[Len(cs)].timestamp
        ascending ==
            IF QLt(QAbs(upperTrend.slope), Q(1, 10000)) /\ QGt(lowerTrend.slope, Q(1, 1000))
            THEN << [type |-> "ASCENDING_TRIANGLE", direction |-> "BULLISH",
                     confidence |-> TriangleConfidence,
                     resistance |-> upperTrend.intercept,
                     target |-> QMul(upperTrend.intercept, Q(105, 100)),
                     timestamp |-> latest] >>
            ELSE <<>>
        descending ==
            IF QLt(upperTrend.slope, Q(-1, 1000)) /\ QLt(QAbs(lowerTrend.slope), Q(1, 10000))
            THEN << [type |-> "DESCENDING_TRIANGLE", direction |-> "BEARISH",
                     confidence |-> TriangleConfidence,
                     support |-> lowerTrend.intercept,
                     target |-> QMul(lowerTrend.intercept, Q(95, 100)),
                     timestamp |-> latest] >>
            ELSE <<>>
        symmetric ==
            IF QLt(upperTrend.slope, Q(-5, 10000)) /\ QGt(lowerTrend.slope, Q(5, 10000))
            THEN << [type |-> "SYMMETRIC_TRIANGLE", direction |-> "NEUTRAL",
                     confidence |-> SymmetricConfidence, timestamp |-> latest] >>
            ELSE <<>>
    IN  ascending \o descending \o symmetric

FlagWindow == 20

FlagConfidence == 700

\* detectFlags(candles): nothing under forty candles; otherwise the move of the
\* earlier twenty closes against the ranges of the earlier and the last twenty
\* candles.  Prices are integers, so m > r * 0.5 is 2 m > r.
DetectFlags(cs) ==
    IF Len(cs) < FlagWindow * 2 THEN <<>>
    ELSE
    LET recentCandles == LastK(cs, FlagWindow)
        priorCandles == SubSeq(cs, Len(cs) - 2 * FlagWindow + 1, Len(cs) - FlagWindow)
        recentRange == MaxOf(Highs(recentCandles)) - MinOf(Lows(recentCandles))
        priorMove == priorCandles[Len(priorCandles)].close - priorCandles[1].close
        priorRange == MaxOf(Highs(priorCandles)) - MinOf(Lows(priorCandles))
        Flag(type, direction) ==
            [type |-> type, direction |-> direction, confidence |-> FlagConfidence,
             poleHeight |-> priorMove,
             target |-> recentCandles[Len(recentCandles)].close + priorMove,
             timestamp |-> cs[Len(cs)].timestamp]
    IN  (IF priorMove * 2 > priorRange /\ recentRange * 10 < priorRange * 3
         THEN << Flag("BULL_FLAG", "BULLISH") >> ELSE <<>>)
        \o (IF priorMove * 2 < -priorRange /\ recentRange * 10 < priorRange * 3
            THEN << Flag("BEAR_FLAG", "BEARISH") >> ELSE <<>>)

WedgeConfidence == 650

\* detectWedges(candles): both trendlines rising with the lower one steeper, or
\* both falling with the upper one steeper.
DetectWedges(cs) ==
    IF Len(cs) < TrendWindow THEN <<>>
    ELSE
    LET subset == LastK(cs, TrendWindow)
        upperTrend == CalculateTrendline(Highs(subset))
        lowerTrend == CalculateTrendline(Lows(subset))
        Wedge(type, direction) ==
            [type |-> type, direction |-> direction, confidence |-> WedgeConfidence,
             timestamp |-> cs[Len(cs)].timestamp]
    IN  (IF QGt(upperTrend.slope, QInt(0)) /\ QGt(lowerTrend.slope, QInt(0))
            /\ QGt(lowerTrend.slope, upperTrend.slope)
         THEN << Wedge("RISING_WEDGE", "BEARISH") >> ELSE <<>>)
        \o (IF QLt(upperTrend.slope, QInt(0)) /\ QLt(lowerTrend.slope, QInt(0))
               /\ QLt(upperTrend.slope, lowerTrend.slope)
            THEN << Wedge("FALLING_WEDGE", "BULLISH") >> ELSE <<>>)

\* The confidences of the candlestick patterns.
CandlestickConfidence == 600

DojiConfidence == 500

EngulfingConfidence == 700

CandlestickPattern(type, direction, confidence, last) ==
    [type |-> type, direction |-> direction, confidence |-> confidence,
     timestamp |-> last.timestamp]

\* detectCandlestickPatterns(candles): nothing without two candles; otherwise
\* the four tests run one after the other on the last candle and each pushes
\* its pattern.  Prices are integers, so x * 0.3 < y is 3 x < 10 y.
DetectCandlestickPatterns(cs) ==
    IF Len(cs) < 2 THEN <<>>
    ELSE
    LET last == cs[Len(cs)]
        prev == cs[Len(cs) - 1]
        bodySize == AbsInt(last.close - last.open)
        wickUp == last.high - MaxInt(last.open, last.close)
        wickDown == MinInt(last.open, last.close) - last.low
        range == last.high - last.low
        prevBody == AbsInt(prev.close - prev.open)
        hammer ==
            IF wickDown > bodySize * 2 /\ wickUp * 10 < bodySize * 3
            THEN << IF last.close > prev.close
                    THEN CandlestickPattern("HAMMER", "BULLISH", CandlestickConfidence, last)
                    ELSE CandlestickPattern("HANGING_MAN", "BEARISH", CandlestickConfidence, last) >>
            ELSE <<>>
        star ==
            IF wickUp > bodySize * 2 /\ wickDown * 10 < bodySize * 3
            THEN << IF last.close < prev.close
                    THEN CandlestickPattern("SHOOTING_STAR", "BEARISH", CandlestickConfidence, last)
                    ELSE CandlestickPattern("INVERTED_HAMMER", "BULLISH", CandlestickConfidence, last) >>
            ELSE <<>>
        doji ==
            IF bodySize * 10 < range
            THEN << CandlestickPattern("DOJI", "NEUTRAL", DojiConfidence, last) >>
            ELSE <<>>
        engulfing ==
            IF bodySize * 10 > prevBody * 15
            THEN IF last.close > last.open /\ prev.close < prev.open
                 THEN << CandlestickPattern("BULLISH_ENGULFING", "BULLISH",
                                            EngulfingConfidence, last) >>
                 ELSE IF last.close < last.open /\ prev.close > prev.open
                 THEN << CandlestickPattern("BEARISH_ENGULFING", "BEARISH",
                                            EngulfingConfidence, last) >>
                 ELSE <<>>
            ELSE <<>>
    IN  hammer \o star \o doji \o engulfing

----------------------------------------------------------------------------
(* PatternRecognition.detectSupportResistance and detectAllPatterns.  The   *)
(* instance keeps the last pattern list and the last levels in its fields  *)
(* detectedPatterns and supportResistance.                                  *)

\* [...prices].sort((a, b) => a - b): position k holds the value with fewer
\* than k smaller entries and at least k entries not above it.
SortAscending(prices) ==
    [k \in 1..Len(prices) |->
        LET Below(v) == Cardinality({ i \in 1..Len(prices) : prices[i] < v })
            UpTo(v) == Cardinality({ i \in 1..Len(prices) : prices[i] <= v })
            at == CHOOSE i \in 1..Len(prices) : Below(prices[i]) < k /\ k <= UpTo(prices[i])
        IN  prices[at]]

ClusterTolerance == Q(5, 1000)

\* One turn of the loop of clusterPrices on the price p: it joins the current
\* cluster, whose price becomes the mean of its prices, or closes it and opens
\* the next one.
ClusterStep(st, p) ==
    LET price == Q(st.sum, st.count)
    IN  IF ~QGt(QDiv(QSub(QInt(p), price), price), ClusterTolerance)
        THEN [st EXCEPT !.sum = @ + p, !.count = @ + 1]
        ELSE [clusters |-> Append(st.clusters, [price |-> price, count |-> st.count]),
              sum |-> p, count |-> 1]

RECURSIVE ClusterRange(_, _, _, _)
\* The loop of clusterPrices over sorted[from + 1 .. to] (JavaScript indices
\* from + 1 to to), first half then second half.
ClusterRange(sorted, st, from, to) ==
    IF to <= from THEN st
    ELSE IF to = from + 1 THEN ClusterStep(st, sorted[to + 1])
    ELSE LET half == ClusterRange(sorted, st, from, (from + to) \div 2)
         IN  IF half.count = 0 THEN half
             ELSE ClusterRange(sorted, half, (from + to) \div 2, to)

\* clusterPrices(prices, tolerance) on a list that is not empty: the clusters in
\* ascending order, each with the mean of its prices and their number.
ClusterPrices(prices) ==
    LET sorted == SortAscending(prices)
        st == ClusterRange(sorted, [clusters |-> <<>>, sum |-> sorted[1], count |-> 1],
                           0, Len(sorted) - 1)
    IN  Append(st.clusters, [price |-> Q(st.sum, st.count), count |-> st.count])

\* determineLevelType(price, candles).
DetermineLevelType(price, cs) ==
    IF QLt(price, QInt(cs[Len(cs)].close)) THEN "SUPPORT" ELSE "RESISTANCE"

TouchThreshold == 3

MaxLevels == 10

\* sort((a, b) => b.strength - a.strength): the sort is stable, so levels of
\* equal strength keep their order.
ByStrength(levels) ==
    [k \in 1..Len(levels) |->
        LET Before(i) == Cardinality({ j \in 1..Len(levels) :
                            \/ levels[j].strength > levels[i].strength
                            \/ levels[j].strength = levels[i].strength /\ j < i })
        IN  levels[CHOOSE i \in 1..Len(levels) : Before(i) = k - 1]]

\* detectSupportResistance(candles): the clusters of all highs and lows that
\* hold at least three prices, the ten strongest first.
DetectSupportResistance(cs) ==
    LET pricePoints == [k \in 1..(2 * Len(cs)) |->
                           IF k % 2 = 1 THEN cs[(k + 1) \div 2].high ELSE cs[k \div 2].low]
        clusters == ClusterPrices(pricePoints)
        levels == SelectSeq([k \in 1..Len(clusters) |->
                                [price |-> clusters[k].price,
                                 strength |-> clusters[k].count,
                                 type |-> DetermineLevelType(clusters[k].price, cs),
                                 touches |-> clusters[k].count]],
                            LAMBDA level : level.strength >= TouchThreshold)
        sorted == ByStrength(levels)
    IN  SubSeq(sorted, 1, MinInt(MaxLevels, Len(sorted)))

CandlestickTail == 10

\* The list detectAllPatterns(candles) builds on at least MinCandles candles.
AllPatterns(cs) ==
    DetectHeadAndShoulders(cs) \o DetectDoubleTop(cs) \o DetectDoubleBottom(cs)
    \o DetectTriangles(cs) \o DetectFlags(cs) \o DetectWedges(cs)
    \o DetectCandlestickPatterns(LastK(cs, CandlestickTail))

\* detectAllPatterns(candles): on fewer than MinCandles candles it returns an
\* empty list before any detector runs and before detectedPatterns or
\* supportResistance is assigned (line 17); otherwise it runs the detectors,
\* stores the levels and the list, and returns the list.
DetectAllPatterns ==
    /\ pc = "indicated"
    /\ IF Len(candles) < MinCandles
       THEN /\ patterns' = <<>>
            /\ UNCHANGED patternVars
       ELSE /\ patterns' = AllPatterns(candles)
            /\ supportResistance' = DetectSupportResistance(candles)
            /\ detectedPatterns' = patterns'
    /\ pc' = "ready"
    /\ UNCHANGED <<minConfidence, activeSetups, setupHistory, candles, indicators,
                   prediction, regime, now, result>>
    /\ UNCHANGED <<riskVars, socketVars>>

\* getPatternSummary().
GetPatternSummary ==
    [total |-> Len(detectedPatterns),
     bullish |-> Len(SelectSeq(detectedPatterns, LAMBDA p : p.direction = "BULLISH")),
     bearish |-> Len(SelectSeq(detectedPatterns, LAMBDA p : p.direction = "BEARISH")),
     patterns |-> detectedPatterns,
     supportResistance |-> supportResistance]

\* The price of candle i (from 0) of a charted shape, as <<close, high, low>>.
ShapePrice(shape, n, i) ==
    CASE shape = "flat" -> <<100, 101, 99>>
      [] shape = "rising" -> <<100 + i, 101 + i, 99 + i>>
      [] shape = "pole" ->
            LET c == 100 + 2 * MaxInt(0, MinInt(19, i - (n - 40)))
            IN  <<c, c + 1, c - 1>>
      [] shape = "drop" ->
            LET c == 140 - 2 * MaxInt(0, MinInt(19, i - (n - 40)))
            IN  <<c, c + 1, c - 1>>
      [] shape = "ascending" -> <<105, 110, 90 + i \div 4>>
      [] shape = "descending" -> <<95, 110 - i \div 4, 90>>
      [] shape = "closing" -> <<100, 115 - i \div 4, 85 + i \div 4>>
      [] shape = "risingWedge" -> <<100 + i \div 2, 110 + i \div 4, 90 + i \div 2>>
      [] shape = "fallingWedge" -> <<100 - i \div 2, 110 - i \div 2, 90 - i \div 4>>
      [] shape = "shoulders" ->
            LET h == 110 + MaxInt(0, MaxInt(5 - AbsInt(i - 8),
                           MaxInt(8 - AbsInt(i - 20), 5 - AbsInt(i - 32))))
            IN  <<h - 1, h, h - 2>>
      [] shape = "twins" ->
            LET h == 110 + MaxInt(0, MaxInt(5 - AbsInt(i - 8), 5 - AbsInt(i - 22)))
            IN  <<h - 1, h, h - 2>>

\* n candles of a shape, one a minute.
ShapeCandles(n, shape) ==
    [k \in 1..n |->
        LET price == ShapePrice(shape, n, k - 1)
        IN  Candle(1000 + 60 * (k - 1), price[1], price[2], price[3])]

Shapes ==
    { "flat", "rising", "pole", "drop", "ascending", "descending", "closing",
      "risingWedge", "fallingWedge", "shoulders", "twins" }

\* Candle lists on both sides of the minimum count.
ChartedCandles ==
    { ShapeCandles(MinCandles, shape) : shape \in Shapes }
    \cup { ShapeCandles(MinCandles + 5, "shoulders") }
    \cup { ShapeCandles(n, "flat") : n \in {0, 1, MinCandles - 1} }

\* A PatternRecognition instance as constructed, about to be called.
InitPatterns ==
    /\ minConfidence = DefaultMinConfidence
    /\ now = 1700000000
    /\ activeSetups = <<>>
    /\ setupHistory = <<>>
    /\ result = <<>>
    /\ pc = "indicated"
    /\ candles \in ChartedCandles
    /\ indicators = <<>>
    /\ patterns = <<>>
    /\ prediction = <<>>
    /\ regime = [regime |-> "RANGING"]
    /\ RiskIdle
    /\ PatternsIdle
    /\ SocketsIdle

\* The caller analyses the chart again: it reads the chart's candles, which may
\* be another list, and calls detectAllPatterns on them.
ChartAgain ==
    /\ pc = "ready"
    /\ candles' \in ChartedCandles
    /\ pc' = "indicated"
    /\ UNCHANGED <<minConfidence, activeSetups, setupHistory, indicators, patterns,
                   prediction, regime, now, result>>
    /\ UNCHANGED <<riskVars, patternVars, socketVars>>

NextPatterns ==
    \/ DetectAllPatterns
    \/ ChartAgain

SpecPatterns == InitPatterns /\ [][NextPatterns]_vars

NextPipeline ==
    \/ CalculateAll
    \/ DetectAllPatterns
    \/ AnalyzeMarket

SpecPipeline == InitPipeline /\ [][NextPipeline]_vars

----------------------------------------------------------------------------
(* AITradingModels.detectMarketRegime: the regime of the last twenty       *)
(* candles and volumes.  The volatility is the square root of a variance   *)
(* and is kept as that variance; a comparison of the volatility with a     *)
(* threshold is the comparison of the variance with the threshold's        *)
(* square.                                                                 *)

RegimeWindow == 20

\* calculateVolatility(candles): the variance of the close-to-close returns,
\* whose square root is returned; 0 / 0 = NaN when there is no return.
ReturnsOf(cs) ==
    [i \in 1..(Len(cs) - 1) |->
        QDiv(QSub(QInt(cs[i + 1].close), QInt(cs[i].close)), QInt(cs[i].close))]

VolatilitySquared(cs) ==
    LET returns == ReturnsOf(cs)
        mean == QDiv(QSum(returns), QInt(Len(returns)))
    IN  QDiv(QSum(SquaredDiffs(returns, mean)), QInt(Len(returns)))

\* calculateVolumeTrend(volumes): the mean of the last five volumes over the
\* mean of the first ten, both sums divided by 5 and 10 whatever the length;
\* an older mean of 0 is replaced by 1.
CalculateVolumeTrend(volume) ==
    LET volumes == [i \in 1..Len(volume) |-> QInt(volume[i])]
        recentAvg == QDiv(QSum(LastK(volumes, 5)), QInt(5))
        olderAvg == QDiv(QSum(Slice(volumes, 0, 10)), QInt(10))
    IN  QDiv(recentAvg, QOr(olderAvg, QInt(1)))

\* calculatePriceTrend(candles) of a non-empty list.
CalculatePriceTrend(cs) ==
    QDiv(QSub(QInt(cs[Len(cs)].close), QInt(cs[1].close)), QInt(cs[1].close))

\* candles[0].close is a property read of undefined on an empty list.
RegimeThrows(cs) == cs = <<>>

VolatileAbove == Q(3, 100)

VolatileVolume == Q(12, 10)

TrendAbove == Q(2, 100)

TrendVolume == QInt(1)

QuietBelow == Q(1, 100)

VolatileConfidence == 800

TrendingConfidence == 750

QuietConfidence == 700

DefaultRegimeConfidence == 500

\* The if / else-if chain of detectMarketRegime on the three metrics.
RegimeOf(variance, volumeTrend, priceTrend) ==
    IF QGt(variance, QMul(VolatileAbove, VolatileAbove)) /\ QGt(volumeTrend, VolatileVolume)
    THEN [regime |-> "VOLATILE", confidence |-> VolatileConfidence]
    ELSE IF QGt(QAbs(priceTrend), TrendAbove) /\ QGt(volumeTrend, TrendVolume)
    THEN [regime |-> IF QGt(priceTrend, QInt(0)) THEN "BULLISH_TRENDING" ELSE "BEARISH_TRENDING",
          confidence |-> TrendingConfidence]
    ELSE IF QLt(variance, QMul(QuietBelow, QuietBelow))
    THEN [regime |-> "RANGING", confidence |-> QuietConfidence]
    ELSE [regime |-> "RANGING", confidence |-> DefaultRegimeConfidence]

\* What the caller observes of a call that throws.
Thrown == [threw |-> "TypeError"]

\* detectMarketRegime(candles, volume): { regime, confidence, volatility,
\* priceTrend }, the volatility given by its square.
DetectMarketRegime(cs, volume) ==
    IF RegimeThrows(LastK(cs, RegimeWindow)) THEN Thrown
    ELSE LET variance == VolatilitySquared(LastK(cs, RegimeWindow))
             volumeTrend == CalculateVolumeTrend(LastK(volume, RegimeWindow))
             priceTrend == CalculatePriceTrend(LastK(cs, RegimeWindow))
             chosen == RegimeOf(variance, volumeTrend, priceTrend)
         IN  [regime |-> chosen.regime, confidence |-> chosen.confidence,
              volatilitySquared |-> variance, priceTrend |-> priceTrend]

----------------------------------------------------------------------------
(* Direct calls of the pure helpers of TechnicalIndicators and             *)
(* PatternRecognition: one call per behaviour, its arguments in riskCall   *)
(* and its return value in riskOut.                                        *)

CallRSI ==
    /\ Calling("RSI")
    /\ riskOut' = << RSI([i \in 1..Len(riskCall.data) |-> QInt(riskCall.data[i])],
                         riskCall.period) >>
    /\ UNCHANGED <<riskCall, detectorVars, patternVars, socketVars>>

CallDetectDivergence ==
    /\ Calling("detectDivergence")
    /\ riskOut' = << DetectDivergence(riskCall.prices, riskCall.indicator, riskCall.periods) >>
    /\ UNCHANGED <<riskCall, detectorVars, patternVars, socketVars>>

CallFindSwingHighs ==
    /\ Calling("findSwingHighs")
    /\ riskOut' = << FindSwingHighs(riskCall.data, riskCall.period) >>
    /\ UNCHANGED <<riskCall, detectorVars, patternVars, socketVars>>

CallFindSwingLows ==
    /\ Calling("findSwingLows")
    /\ riskOut' = << FindSwingLows(riskCall.data, riskCall.period) >>
    /\ UNCHANGED <<riskCall, detectorVars, patternVars, socketVars>>

CallFindPeaks ==
    /\ Calling("findPeaks")
    /\ riskOut' = << FindPeaks(riskCall.data, riskCall.period) >>
    /\ UNCHANGED <<riskCall, detectorVars, patternVars, socketVars>>

CallFindTroughs ==
    /\ Calling("findTroughs")
    /\ riskOut' = << FindTroughs(riskCall.data, riskCall.period) >>
    /\ UNCHANGED <<riskCall, detectorVars, patternVars, socketVars>>

CallDetectDoubleBottom ==
    /\ Calling("detectDoubleBottom")
    /\ riskOut' = << DetectDoubleBottom(riskCall.candles) >>
    /\ UNCHANGED <<riskCall, detectorVars, patternVars, socketVars>>

CallDetectMarketRegime ==
    /\ Calling("detectMarketRegime")
    /\ riskOut' = << DetectMarketRegime(riskCall.candles, riskCall.volume) >>
    /\ UNCHANGED <<riskCall, detectorVars, patternVars, socketVars>>

CallDetectCandlestickPatterns ==
    /\ Calling("detectCandlestickPatterns")
    /\ riskOut' = << DetectCandlestickPatterns(riskCall.candles) >>
    /\ UNCHANGED <<riskCall, detectorVars, patternVars, socketVars>>

\* The longest of the exhaustively enumerated series.
MaxSeriesLen == 5

\* Every series of up to MaxSeriesLen values among three levels: all the rises,
\* falls and ties that fit.
SmallSeries == UNION { [1..n -> {1, 2, 3}] : n \in 0..MaxSeriesLen }

\* Fifteen to seventeen values that rise by step each time (fall when step < 0,
\* stay when step = 0), and the same with the last move reversed.
Ramp(n, step) == [i \in 1..n |-> 100 + step * i]

RampWithTurn(n, step) == [i \in 1..n |-> IF i = n THEN 100 + step * (i - 2) ELSE 100 + step * i]

LongSeries ==
    { Ramp(n, step) : n \in {14, 15, 17}, step \in {-2, 0, 1, 5} }
    \cup { RampWithTurn(n, step) : n \in {15, 17}, step \in {-2, 1} }

\* Twenty values with swing lows at the indices 5 and 11 and swing highs at the
\* indices 8 and 14; the second low and the second high are given.
Zigzag(low2, high2) ==
    << 17, 16, 15, 14, 13, 11, 13, 15, 19, 15, 13, low2, 14, 16, high2, 16, 15, 14, 13, 13 >>

\* The zigzags with a lower or higher second low and second high, the same after
\* five earlier values, one cut to nineteen values, and a flat series.
DivergenceSeries ==
    LET zigzags == { Zigzag(low2, high2) : low2 \in {10, 12}, high2 \in {18, 20} }
    IN  zigzags
        \cup { [i \in 1..5 |-> 17] \o z : z \in zigzags }
        \cup { SubSeq(z, 2, 20) : z \in { Zigzag(10, 20), Zigzag(12, 18) } }
        \cup { [i \in 1..20 |-> 15] }

\* The low of candle i (from 0) of a series that stays at 110 but for two dips of
\* four candles on each side, to 100 at index first and to depth at index second.
DipLow(i, first, second, depth) ==
    IF i = first THEN 100
    ELSE IF i = second THEN depth
    ELSE 110 - 2 * MaxInt(0, MaxInt(5 - AbsInt(i - first), 5 - AbsInt(i - second)))

DipCandles(n, first, gap, depth) ==
    [k \in 1..n |-> [low |-> DipLow(k - 1, first, first + gap, depth),
                     timestamp |-> 1000 + 60 * (k - 1)]]

\* Twenty to forty-seven candles with two dips nine, ten, eleven or twelve candles
\* apart, the second as deep as the first, 1% or 2% less deep.
DoubleBottomSeries ==
    { DipCandles(n, first, gap, depth) :
        n \in {20, 22, 36, 41, 47}, first \in {5, 8}, gap \in {9, 10, 11, 12},
        depth \in {100, 101, 102} }

\* Up to three candles closing at 94, 100 or 106: no return, one return, and two
\* returns that are equal, close or far apart.
RegimeCandles ==
    UNION { [1..n -> { [close |-> c] : c \in {94, 100, 106} }] : n \in 0..3 }
    \cup { << [close |-> 100], [close |-> 103], [close |-> 100] >>,
           << [close |-> 100], [close |-> 100], [close |-> 102] >>,
           << [close |-> 100], [close |-> 100], [close |-> 103] >>,
           << [close |-> 100], [close |-> 101], [close |-> 103] >>,
           << [close |-> 100], [close |-> 99], [close |-> 97] >> }

\* Fifteen volumes, ten of 10 and then five of the given level; no volume; and
\* fifteen volumes of 0.
RegimeVolumes ==
    { [i \in 1..15 |-> IF i <= 10 THEN 10 ELSE level] : level \in {5, 10, 11, 12, 13} }
    \cup { <<>>, [i \in 1..15 |-> 0] }

\* A candle of the given open and close whose wicks reach up and down by the
\* given amounts.
WickCandle(t, open, close, up, down) ==
    [timestamp |-> t, open |-> open, close |-> close,
     high |-> MaxInt(open, close) + up, low |-> MinInt(open, close) - down, volume |-> 10]

\* A falling, a rising or a flat candle followed by a candle of body 0, 1 or 3 up
\* or down with wicks of 0, 1 or 10; and the lists of no and of one candle.
CandlestickSeries ==
    { << WickCandle(1000, 100 - move, 100, 1, 1), WickCandle(1060, 100, 100 + body, up, down) >> :
        move \in {-1, 0, 1}, body \in {-3, -1, 0, 1, 3}, up \in {0, 1, 10}, down \in {0, 1, 10} }
    \cup { <<>>, << WickCandle(1000, 100, 101, 1, 1) >> }

FunctionCalls ==
    { [op |-> "RSI", data |-> d, period |-> 2] : d \in SmallSeries }
    \cup { [op |-> "RSI", data |-> d, period |-> DefaultPeriod] : d \in LongSeries }
    \cup { [op |-> "detectDivergence", prices |-> ps, indicator |-> ind, periods |-> n] :
              ps \in DivergenceSeries, ind \in DivergenceSeries,
              n \in {DivergencePeriods, DivergencePeriods + 5} }
    \cup { [op |-> o, data |-> d, period |-> k] :
              o \in {"findSwingHighs", "findSwingLows", "findPeaks", "findTroughs"},
              d \in SmallSeries, k \in 0..2 }
    \cup { [op |-> o, data |-> d, period |-> SwingPeriod] :
              o \in {"findSwingHighs", "findSwingLows", "findPeaks", "findTroughs"},
              d \in DivergenceSeries }
    \cup { [op |-> "detectDoubleBottom", candles |-> cs] : cs \in DoubleBottomSeries }
    \cup { [op |-> "detectMarketRegime", candles |-> cs, volume |-> v] :
              cs \in RegimeCandles, v \in RegimeVolumes }
    \cup { [op |-> "detectCandlestickPatterns", candles |-> cs] : cs \in CandlestickSeries }

InitFunctions == DetectorIdle /\ PatternsIdle /\ SocketsIdle /\ riskCall \in FunctionCalls /\ riskOut = <<>>

NextFunctions ==
    \/ CallRSI
    \/ CallDetectDivergence
    \/ CallFindSwingHighs
    \/ CallFindSwingLows
    \/ CallFindPeaks
    \/ CallFindTroughs
    \/ CallDetectDoubleBottom
    \/ CallDetectMarketRegime
    \/ CallDetectCandlestickPatterns

SpecFunctions == InitFunctions /\ [][NextFunctions]_vars

----------------------------------------------------------------------------
(* WebSocketManager and TradingDashboard.changeSymbol.  A handler runs to   *)
(* completion; socket events and timer callbacks are separate steps.  The  *)
(* operators below transform the manager's fields, gathered in a record m. *)

\* The number of WebSockets created in a run is capped.
MaxSockets == 5

MaxReconnectAttempts == 10

Manager ==
    [connections |-> connections, isConnected |-> isConnected,
     reconnectAttempts |-> reconnectAttempts, sockets |-> sockets, timers |-> timers]

\* connect(exchange, symbol): nothing when the key has a connection; otherwise a
\* new WebSocket, CONNECTING, with the four handlers, is stored under the key.
Connect(m, exchange, symbol) ==
    LET key == Key(exchange, symbol)
    IN  IF m.connections[key] # 0 THEN m
        ELSE [m EXCEPT
                !.sockets = Append(@, [exchange |-> exchange, symbol |-> symbol,
                                       readyState |-> "CONNECTING"]),
                !.connections[key] = Len(m.sockets) + 1]

\* ws.close(): a socket that is connecting or open starts closing; its close
\* event comes later.
Close(state) == IF state \in {"CONNECTING", "OPEN"} THEN "CLOSING" ELSE state

\* disconnect(exchange, symbol): when the key has a connection it is closed and
\* its entry deleted, and the key is marked not connected.
Disconnect(m, exchange, symbol) ==
    LET key == Key(exchange, symbol)
        ws == m.connections[key]
    IN  IF ws = 0 THEN m
        ELSE [m EXCEPT
                !.sockets[ws].readyState = Close(@),
                !.connections[key] = 0,
                !.isConnected[key] = FALSE]

\* reconnect(exchange, symbol): gives up at MAX_RECONNECT_ATTEMPTS; otherwise
\* counts the attempt and schedules connect(exchange, symbol).
Reconnect(m, exchange, symbol) ==
    LET key == Key(exchange, symbol)
        attempts == m.reconnectAttempts[key]
    IN  IF attempts >= MaxReconnectAttempts THEN m
        ELSE [m EXCEPT !.reconnectAttempts[key] = attempts + 1,
                       !.timers[key] = @ + 1]

RECURSIVE DisconnectEach(_, _, _)
\* CONFIG.EXCHANGES.forEach(exchange => wsManager.disconnect(exchange, symbol)),
\* from the i-th exchange on.
DisconnectEach(m, symbol, i) ==
    IF i > Len(Exchanges) THEN m
    ELSE DisconnectEach(Disconnect(m, Exchanges[i], symbol), symbol, i + 1)

RECURSIVE ConnectEach(_, _, _)
\* CONFIG.EXCHANGES.forEach(exchange => wsManager.connect(exchange, symbol)).
ConnectEach(m, symbol, i) ==
    IF i > Len(Exchanges) THEN m
    ELSE ConnectEach(Connect(m, Exchanges[i], symbol), symbol, i + 1)

\* The manager's fields take the values of m.
Becomes(m) ==
    /\ connections' = m.connections
    /\ isConnected' = m.isConnected
    /\ reconnectAttempts' = m.reconnectAttempts
    /\ sockets' = m.sockets
    /\ timers' = m.timers

\* connectWebSockets(): the dashboard connects every exchange for the current
\* symbol.
ConnectWebSockets ==
    /\ ~running
    /\ running' = TRUE
    /\ Becomes(ConnectEach(Manager, currentSymbol, 1))
    /\ UNCHANGED <<currentSymbol, emitted>>
    /\ UNCHANGED <<detectorVars, riskVars, patternVars>>

\* changeSymbol(symbol), up to its first await: nothing for the current symbol;
\* otherwise the old symbol is disconnected on every exchange, the chart, the
\* order book and the metrics are cleared, and the new symbol is connected.
ChangeSymbol(symbol) ==
    /\ running
    /\ symbol # currentSymbol
    /\ Len(sockets) + Len(Exchanges) <= MaxSockets
    /\ currentSymbol' = symbol
    /\ emitted' = {}
    /\ Becomes(ConnectEach(DisconnectEach(Manager, currentSymbol, 1), symbol, 1))
    /\ UNCHANGED running
    /\ UNCHANGED <<detectorVars, riskVars, patternVars>>

\* ws.onopen of socket ws: the key is marked connected and its attempts reset;
\* the subscription messages change nothing here.
OnOpen(ws) ==
    /\ sockets[ws].readyState = "CONNECTING"
    /\ sockets' = [sockets EXCEPT ![ws].readyState = "OPEN"]
    /\ isConnected' = [isConnected EXCEPT ![Key(sockets[ws].exchange, sockets[ws].symbol)] = TRUE]
    /\ reconnectAttempts' =
          [reconnectAttempts EXCEPT ![Key(sockets[ws].exchange, sockets[ws].symbol)] = 0]
    /\ UNCHANGED <<currentSymbol, running, connections, timers, emitted>>
    /\ UNCHANGED <<detectorVars, riskVars, patternVars>>

EventTypes == {"trade", "orderbook", "ticker"}

\* ws.onmessage of an open socket: handleMessage emits the event with the
\* exchange and the symbol the socket was connected for.
OnMessage(ws, event) ==
    /\ sockets[ws].readyState = "OPEN"
    /\ emitted' = emitted \cup { [event |-> event, exchange |-> sockets[ws].exchange,
                                  symbol |-> sockets[ws].symbol] }
    /\ UNCHANGED <<currentSymbol, running, connections, isConnected, reconnectAttempts,
                   sockets, timers>>
    /\ UNCHANGED <<detectorVars, riskVars, patternVars>>

\* ws.onclose of socket ws, after close() or when the connection fails or
\* drops: the key is marked not connected, the key's entry is deleted and
\* reconnect is called.
OnClose(ws) ==
    /\ sockets[ws].readyState # "CLOSED"
    /\ LET exchange == sockets[ws].exchange
           symbol == sockets[ws].symbol
           key == Key(exchange, symbol)
           closed == [Manager EXCEPT !.sockets[ws].readyState = "CLOSED",
                                     !.isConnected[key] = FALSE,
                                     !.connections[key] = 0]
       IN  Becomes(Reconnect(closed, exchange, symbol))
    /\ UNCHANGED <<currentSymbol, running, emitted>>
    /\ UNCHANGED <<detectorVars, riskVars, patternVars>>

\* The callback reconnect scheduled for the key runs: connect(exchange, symbol).
ReconnectTimer(key) ==
    /\ timers[key] > 0
    /\ Len(sockets) < MaxSockets
    /\ Becomes(Connect([Manager EXCEPT !.timers[key] = @ - 1], key[1], key[2]))
    /\ UNCHANGED <<currentSymbol, running, emitted>>
    /\ UNCHANGED <<detectorVars, riskVars, patternVars>>

\* The dashboard starts with its detector, risk calculator and pattern
\* recognition idle and its manager constructed.
InitSockets ==
    /\ DetectorIdle
    /\ RiskIdle
    /\ PatternsIdle
    /\ SocketsIdle

NextSockets ==
    \/ ConnectWebSockets
    \/ \E symbol \in Symbols : ChangeSymbol(symbol)
    \/ \E ws \in 1..Len(sockets) : OnOpen(ws)
    \/ \E ws \in 1..Len(sockets), event \in EventTypes : OnMessage(ws, event)
    \/ \E ws \in 1..Len(sockets) : OnClose(ws)
    \/ \E key \in Keys : ReconnectTimer(key)

SpecSockets == InitSockets /\ [][NextSockets]_vars

----------------------------------------------------------------------------
(* Properties of analyzeMarket.                                            *)

Returned == pc = "returned"

\* C1: every setup analyzeMarket returns has confidence >= minConfidence, and
\* the returned list is in non-increasing order of confidence.
C1_ThresholdAndOrder ==
    Returned =>
        /\ \A i \in 1..Len(result) : result[i].confidence >= ConfOfMilli(minConfidence)
        /\ \A i \in 1..(Len(result) - 1) : result[i].confidence >= result[i + 1].confidence

\* A call that returned several setups of different confidences, in an order
\* other than the order the strategies ran in.
C1_Witness ==
    /\ Returned
    /\ Len(result) >= 3
    /\ result[1].confidence > result[Len(result)].confidence
    /\ result # FilterByConfidence(AllSetups(candles, indicators, patterns, prediction, regime))

Bullish(s) == s.direction = "LONG" \/ s.direction = "BULLISH"

Bearish(s) == s.direction = "SHORT" \/ s.direction = "BEARISH"

\* C2: for well-formed candles every returned setup has finite entry, stop and
\* target, with stopLoss < entry < takeProfit when bullish/LONG and
\* stopLoss > entry > takeProfit when bearish/SHORT.
C2_StopAndTargetSides ==
    (Returned /\ WellFormed(candles)) =>
        \A i \in 1..Len(result) :
            LET s == result[i]
            IN  /\ IsNum(s.entry) /\ IsNum(s.stopLoss) /\ IsNum(s.takeProfit)
                /\ Bullish(s) => (s.stopLoss[1] < s.entry[1] /\ s.entry[1] < s.takeProfit[1])
                /\ Bearish(s) => (s.stopLoss[1] > s.entry[1] /\ s.entry[1] > s.takeProfit[1])

\* C3: the direction of every returned setup is LONG or SHORT, so the summary's
\* total is the sum of its long and short counts.
C3_DirectionLongOrShort ==
    Returned =>
        /\ \A i \in 1..Len(result) : result[i].direction \in {"LONG", "SHORT"}
        /\ GetSummary.total = GetSummary.long + GetSummary.short

\* C4: the confidence of every setup a strategy emits lies in [0, 0.95].
C4_ConfidenceWithinCap ==
    Returned =>
        \A i \in 1..Len(result) :
            /\ result[i].confidence >= 0
            /\ result[i].confidence <= ConfOfMilli(ConfidenceCap)

\* C5: whenever stopLoss differs from entry, the riskReward field equals
\* |takeProfit - entry| / |entry - stopLoss| and is positive.
C5_RiskRewardMatchesLevels ==
    Returned =>
        \A i \in 1..Len(result) :
            LET s == result[i]
            IN  (IsNum(s.entry) /\ IsNum(s.stopLoss) /\ IsNum(s.takeProfit)
                 /\ s.stopLoss # s.entry) =>
                    /\ s.riskReward * AbsInt(s.entry[1] - s.stopLoss[1])
                         = 1000 * AbsInt(s.takeProfit[1] - s.entry[1])
                    /\ s.riskReward > 0

\* C6: on a candle list shorter than MinCandles (the empty list included),
\* running calculateAll, detectAllPatterns and then analyzeMarket on their
\* outputs raises no exception and rejects no promise.
C6_PipelineNeverThrows ==
    Len(candles) < MinCandles => pc # "threw"

----------------------------------------------------------------------------
(* Properties of the risk calculator.                                      *)

RiskReturned(op) == riskCall.op = op /\ riskOut # <<>>

\* What a call that rejects its input would return.
Rejected == [rejected |-> TRUE]

\* C7: calculateRiskReward returns |takeProfit - entry| / |entry - stopLoss|
\* when entry differs from stopLoss and rejects the input when they are equal,
\* and generateRiskReport then yields no position and no recommendation.
C7_RatioOrRejection ==
    /\ RiskReturned("calculateRiskReward") =>
          IF riskCall.entry # riskCall.stopLoss
          THEN QMul(riskOut[1].ratio, QAbs(QSub(riskCall.entry, riskCall.stopLoss)))
                  = QAbs(QSub(riskCall.takeProfit, riskCall.entry))
          ELSE riskOut[1] = Rejected
    /\ (RiskReturned("generateRiskReport")
        /\ riskCall.setup.entry = riskCall.setup.stopLoss) => riskOut[1] = Rejected

\* The position a sizing call produced: the return value of calculatePositionSize,
\* or the position of a risk report.
SizedPosition ==
    IF riskCall.op = "calculatePositionSize" THEN riskOut[1] ELSE riskOut[1].position

SizedEntry == IF riskCall.op = "calculatePositionSize" THEN riskCall.entry
              ELSE riskCall.setup.entry

SizedStop == IF riskCall.op = "calculatePositionSize" THEN riskCall.stopLoss
             ELSE riskCall.setup.stopLoss

RecommendationOf == IF riskCall.op = "getTradeRecommendation" THEN riskOut[1]
                    ELSE riskOut[1].recommendation

RecommendationLeverage == IF riskCall.op = "getTradeRecommendation" THEN riskCall.leverage
                          ELSE riskOut[1].position.leverage

\* C9: whenever position.leverage > 10 the recommended action is SKIP_TRADE,
\* whatever the ratio, the stop percent and the confidence.
C9_SkipTradeIsTerminal ==
    ((RiskReturned("getTradeRecommendation") \/ RiskReturned("generateRiskReport"))
     /\ QGt(RecommendationLeverage, QInt(10))) =>
        RecommendationOf.action = "SKIP_TRADE"

\* The worked example: confidence 0.82, ratio 3.0, stopPercent 0.93, leverage 11.
ScoreExample ==
    /\ riskCall.confidence = Q(82, 100) /\ riskCall.ratio = QInt(3)
    /\ riskCall.stopPercent = Q(93, 100) /\ riskCall.leverage = QInt(11)

\* 40 x confidence + min(30, (ratio / 3) x 30) + max(0, 20 - stopPercent x 5)
\* + max(0, 10 - leverage), for finite arguments, in hundredths of a point.
ScoreFormulaHundredths(c, q, sp, l) ==
    (4000 * c.n) \div c.d
    + MinInt(3000, (1000 * q.n) \div q.d)
    + MaxInt(0, 2000 - (500 * sp.n) \div sp.d)
    + MaxInt(0, 1000 - (100 * l.n) \div l.d)

\* The score is the sum of the four terms.
ScoreIsFormula ==
    (IsFinite(riskCall.ratio) /\ IsFinite(riskCall.leverage)) =>
        /\ riskOut[1].d # 0 /\ 100 % riskOut[1].d = 0
        /\ riskOut[1].n * (100 \div riskOut[1].d)
             = ScoreFormulaHundredths(riskCall.confidence, riskCall.ratio,
                                      riskCall.stopPercent, riskCall.leverage)

KellyExample ==
    /\ riskCall.winRate = Q(55, 100) /\ riskCall.avgWin = Q(25, 1000)
    /\ riskCall.avgLoss = Q(1, 100)

\* a lies within one point of b.
WithinOnePoint(a, b) == ~QGt(QAbs(QSub(a, b)), QInt(1))

\* C11: calculateKellyCriterion(0.55, 0.025, 0.01) returns fullKelly within one
\* point of 15 (percent) and halfKelly about 7.5 (percent).
C11_KellyExample ==
    (RiskReturned("calculateKellyCriterion") /\ KellyExample) =>
        /\ WithinOnePoint(riskOut[1].fullKelly, QInt(15))
        /\ WithinOnePoint(riskOut[1].halfKelly, Q(15, 2))

\* C12: for winRate in [0, 1] and positive avgWin and avgLoss, fullKelly lies in
\* [0, 100] and halfKelly is exactly half of fullKelly.
C12_HalfKellyIsHalf ==
    RiskReturned("calculateKellyCriterion") =>
        /\ ~QLt(riskOut[1].fullKelly, QInt(0))
        /\ ~QGt(riskOut[1].fullKelly, QInt(100))
        /\ IsFinite(riskOut[1].fullKelly)
        /\ riskOut[1].halfKelly = QMul(Q(1, 2), riskOut[1].fullKelly)

\* calculateAll has returned the snapshot list in indicators.
Indicated == pc = "indicated"

\* C13: for every candle list, of any length, calculateAll returns one snapshot
\* per candle, and snapshot i carries the timestamp of candle i.
C13_OneSnapshotPerCandle ==
    Indicated =>
        /\ Len(indicators) = Len(candles)
        /\ \A i \in 1..Len(indicators) : indicators[i].timestamp = candles[i].timestamp

\* The closes calculateAll has seen when it builds the snapshot of index i.
ClosesUpTo(i) == Slice(QCloses(candles), 0, i + 1)

\* The moving averages of index i are present only on as many closes as their period.
LookbackSatisfied(i) ==
    LET ind == indicators[i + 1]
    IN  /\ ind.ema9 # <<>> => i + 1 >= 9
        /\ ind.ema20 # <<>> => i + 1 >= 20
        /\ ind.ema50 # <<>> => i + 1 >= 50
        /\ ind.sma20 # <<>> => i + 1 >= 20
        /\ ind.sma50 # <<>> => i + 1 >= 50
        /\ ind.sma200 # <<>> => i + 1 >= 200
        /\ ind.macd # <<>> => i + 1 >= MACDSlow
        /\ ind.obv # <<>> => i + 1 >= 2

\* The rsi and adx of index i come from period + 1 values or more, so neither
\* is the value RSI() and ADX() return on too few values.
NoDefaultValue(i) ==
    LET ind == indicators[i + 1]
        given == Len(Slice(QCloses(candles), MaxInt(0, i - 14), i + 1))
    IN  /\ ind.rsi # <<>> => given >= DefaultPeriod + 1
        /\ ind.adx # <<>> => given >= DefaultPeriod + 1

\* The macdSignal of index i is the EMA of MACDSignalPeriod or more MACD values.
SignalIsEMA(i) ==
    LET ind == indicators[i + 1]
        macdLine == MACDLine(ClosesUpTo(i))
    IN  ind.macdSignal # <<>> =>
            /\ Len(macdLine) >= MACDSignalPeriod
            /\ ind.macdSignal[1] = EMA(macdLine, MACDSignalPeriod)

\* C14: in every snapshot of calculateAll a field is absent while its lookback is
\* not satisfied, rsi and adx are never the defaults of RSI() and ADX(), and
\* macdSignal is a 9-period EMA over at least 9 MACD values, never a copy of macd.
C14_NoPlaceholders ==
    Indicated =>
        \A i \in 0..(Len(indicators) - 1) :
            LookbackSatisfied(i) /\ NoDefaultValue(i) /\ SignalIsEMA(i)

RECURSIVE SignedVolume(_, _, _)
\* The sum over the indices j in from..to-1 of +volume[j] when candle j closes
\* above candle j-1, -volume[j] when it closes below, and 0 when they tie.
SignedVolume(cs, from, to) ==
    IF from >= to THEN 0
    ELSE IF to = from + 1
    THEN (IF cs[from + 1].close > cs[from].close THEN cs[from + 1].volume
          ELSE IF cs[from + 1].close < cs[from].close THEN -cs[from + 1].volume
          ELSE 0)
    ELSE SignedVolume(cs, from, (from + to) \div 2) + SignedVolume(cs, (from + to) \div 2, to)

\* C19: in the output of calculateAll obv is absent at index 0, and at every
\* index i >= 1 it is the sum over j in 1..i of the signed volumes, so it
\* repeats the previous obv when the close is unchanged.
C19_OBVIsRunningTotal ==
    Indicated =>
        \A i \in 0..(Len(indicators) - 1) :
            IF i = 0 THEN indicators[1].obv = <<>>
            ELSE /\ indicators[i + 1].obv = << QInt(SignedVolume(candles, 1, i + 1)) >>
                 /\ (i >= 2 /\ candles[i + 1].close = candles[i].close)
                        => indicators[i + 1].obv = indicators[i].obv

\* A returned list in which the running total matters: the last candle moves
\* the obv, and the obv before it was not zero.
C19_Witness ==
    /\ Indicated
    /\ Len(indicators) >= MinCandles
    /\ LET n == Len(indicators)
       IN  /\ indicators[n].obv # indicators[n - 1].obv
           /\ indicators[n - 1].obv # << QInt(0) >>
           /\ \E i \in 2..(n - 1) :
                  /\ candles[i + 1].close = candles[i].close
                  /\ indicators[i + 1].obv # << QInt(0) >>

----------------------------------------------------------------------------
(* Properties of the indicator and pattern helpers.                        *)

\* Every change of the series is a gain (a loss when sign = -1).
AllChanges(data, sign) ==
    Len(data) >= 2 /\ \A i \in 2..Len(data) : sign * (data[i] - data[i - 1]) > 0

\* C15: on period + 1 values or more RSI returns a value in [0, 100]: exactly
\* 100 when every change is a gain and exactly 0 when every change is a loss.
C15_RSIRangeAndExtremes ==
    (RiskReturned("RSI") /\ Len(riskCall.data) >= riskCall.period + 1) =>
        /\ IsFinite(riskOut[1])
        /\ ~QLt(riskOut[1], QInt(0)) /\ ~QGt(riskOut[1], QInt(100))
        /\ AllChanges(riskCall.data, 1) => riskOut[1] = QInt(100)
        /\ AllChanges(riskCall.data, -1) => riskOut[1] = QInt(0)

\* The arguments of the detectDivergence call, cut to their last periods values.
RecentPrices == LastK(riskCall.prices, riskCall.periods)

RecentIndicator == LastK(riskCall.indicator, riskCall.periods)

TooShort == Len(riskCall.prices) < riskCall.periods \/ Len(riskCall.indicator) < riskCall.periods

\* The latest of two or more swing values lies below (sign = -1) or above
\* (sign = 1) the one before it.
LatestMoves(swings, sign) ==
    Len(swings) >= 2 /\ sign * (swings[Len(swings)] - swings[Len(swings) - 1]) > 0

\* C17: detectDivergence returns null when either series is shorter than
\* periods; otherwise, when the window of prices has two or more swing lows with
\* the latest lower and the window of the indicator has two or more swing lows
\* with the latest higher, it returns BULLISH with strength 0.8, whatever the
\* swing highs are.
C17_BullishDivergence ==
    RiskReturned("detectDivergence") =>
        /\ TooShort => riskOut[1] = <<>>
        /\ (/\ ~TooShort
            /\ LatestMoves(FindSwingLows(RecentPrices, SwingPeriod), -1)
            /\ LatestMoves(FindSwingLows(RecentIndicator, SwingPeriod), 1))
                => riskOut[1] = << [type |-> "BULLISH", strength |-> DivergenceStrength] >>

\* A call that returned BULLISH although the swing highs diverge the bearish
\* way as well: a higher high of the price on a lower high of the indicator.
C17_Witness ==
    /\ RiskReturned("detectDivergence")
    /\ ~TooShort
    /\ riskOut[1] = << [type |-> "BULLISH", strength |-> DivergenceStrength] >>
    /\ LatestMoves(FindSwingLows(RecentPrices, SwingPeriod), -1)
    /\ LatestMoves(FindSwingHighs(RecentPrices, SwingPeriod), 1)
    /\ LatestMoves(FindSwingHighs(RecentIndicator, SwingPeriod), -1)

\* The indices i with period <= i < length - period whose value lies strictly
\* above (sign = 1) or below (sign = -1) every other value of i - period .. i + period.
StrictExtrema(data, period, sign) ==
    { i \in period..(Len(data) - period - 1) :
        \A j \in (i - period)..(i + period) :
            j # i => sign * (data[i + 1] - data[j + 1]) > 0 }

RECURSIVE Ascending(_)
\* The members of a set of indices in increasing order.
Ascending(S) ==
    IF S = {} THEN <<>>
    ELSE LET least == CHOOSE m \in S : \A x \in S : m <= x
         IN  << least >> \o Ascending(S \ {least})

\* The {index, value} records, and the bare values, of the given indices.
RecordsAt(data, indices) ==
    [k \in 1..Len(indices) |-> [index |-> indices[k], value |-> data[indices[k] + 1]]]

ValuesAt(data, indices) == [k \in 1..Len(indices) |-> data[indices[k] + 1]]

\* C20: findPeaks returns exactly the indices within period of neither end whose
\* value is strictly greater than every other value of their window, in
\* increasing order (findTroughs likewise with less than), so a tie never counts;
\* findSwingHighs and findSwingLows return the values at those same indices.
C20_ExtremaAreStrict ==
    LET peaks == Ascending(StrictExtrema(riskCall.data, riskCall.period, 1))
        troughs == Ascending(StrictExtrema(riskCall.data, riskCall.period, -1))
    IN  /\ RiskReturned("findPeaks") => riskOut[1] = RecordsAt(riskCall.data, peaks)
        /\ RiskReturned("findTroughs") => riskOut[1] = RecordsAt(riskCall.data, troughs)
        /\ RiskReturned("findSwingHighs") => riskOut[1] = ValuesAt(riskCall.data, peaks)
        /\ RiskReturned("findSwingLows") => riskOut[1] = ValuesAt(riskCall.data, troughs)

\* A findPeaks call that returned a peak and left out an index whose value is
\* the largest of its window but tied with another one.
C20_Witness ==
    /\ RiskReturned("findPeaks")
    /\ Len(riskOut[1]) >= 1
    /\ \E i \in riskCall.period..(Len(riskCall.data) - riskCall.period - 1) :
          /\ \A j \in (i - riskCall.period)..(i + riskCall.period) :
                riskCall.data[j + 1] <= riskCall.data[i + 1]
          /\ \A k \in 1..Len(riskOut[1]) : riskOut[1][k].index # i

\* The windows of the candles a double bottom is looked for in: an input of at
\* most thirty candles whole, otherwise the thirty candles before each scanned one.
ScannedWindows(cs) ==
    IF Len(cs) <= DoubleBottomWindow THEN { cs }
    ELSE { Slice(cs, i - DoubleBottomWindow, i) :
             i \in DoubleBottomWindow..(Len(cs) - DoubleBottomTail - 1) }

\* The last two troughs of the window are less than 1.5% apart in value and at
\* least ten candles apart.
TwinTroughs(window) ==
    LET troughs == LastK(FindTroughs(Lows(window), DefaultExtremaPeriod), 2)
    IN  /\ Len(troughs) >= 2
        /\ AbsInt(troughs[1].value - troughs[2].value) * 1000 < 15 * troughs[1].value
        /\ troughs[2].index - troughs[1].index >= DoubleBottomMinGap

\* C16: when a window of the input, or an input as short as twenty candles, has
\* its two last troughs less than 1.5% apart and ten or more candles apart,
\* detectDoubleBottom returns a DOUBLE_BOTTOM pattern of direction BULLISH and
\* confidence 0.70.
C16_DoubleBottomEmitted ==
    (RiskReturned("detectDoubleBottom")
        /\ \E window \in ScannedWindows(riskCall.candles) : TwinTroughs(window))
    => /\ Len(riskOut[1]) = 1
       /\ riskOut[1][1].type = "DOUBLE_BOTTOM"
       /\ riskOut[1][1].direction = "BULLISH"
       /\ riskOut[1][1].confidence = DoubleBottomConfidence

\* C18: analyzeMarket invoked again with the same candles, indicators, patterns,
\* prediction and regime returns the list it returned before, equal in every
\* field of every setup, whatever the clock reads at the two invocations.
C18_SameArgumentsSameSetups ==
    [][(pc = "again" /\ pc' = "returned") => result' = result]_vars

----------------------------------------------------------------------------
(* Properties of detectMarketRegime.                                       *)

RegimeVolumeTrend == CalculateVolumeTrend(LastK(riskCall.volume, RegimeWindow))

\* The volatility of the returned record exceeds, or lies below, a threshold.
VolatilityAbove(threshold) == QGt(riskOut[1].volatilitySquared, QMul(threshold, threshold))

VolatilityBelow(threshold) == QLt(riskOut[1].volatilitySquared, QMul(threshold, threshold))

RegimeIs(label, confidence) ==
    riskOut[1].regime = label /\ riskOut[1].confidence = confidence

IsVolatile == VolatilityAbove(Q(3, 100)) /\ QGt(RegimeVolumeTrend, Q(12, 10))

IsTrending == QGt(QAbs(riskOut[1].priceTrend), Q(2, 100)) /\ QGt(RegimeVolumeTrend, QInt(1))

\* C21: every call of detectMarketRegime returns a record, and the record is
\* VOLATILE 0.8 when volatility > 0.03 and volumeTrend > 1.2; otherwise
\* BULLISH_TRENDING or BEARISH_TRENDING 0.75 by the sign of priceTrend when
\* |priceTrend| > 0.02 and volumeTrend > 1.0; otherwise RANGING 0.7 when
\* volatility < 0.01; otherwise RANGING 0.5.
C21_RegimeTable ==
    RiskReturned("detectMarketRegime") =>
        /\ riskOut[1] # Thrown
        /\ IF IsVolatile THEN RegimeIs("VOLATILE", 800)
           ELSE IF IsTrending
           THEN IF QGt(riskOut[1].priceTrend, QInt(0))
                THEN RegimeIs("BULLISH_TRENDING", 750)
                ELSE RegimeIs("BEARISH_TRENDING", 750)
           ELSE IF VolatilityBelow(Q(1, 100)) THEN RegimeIs("RANGING", 700)
           ELSE RegimeIs("RANGING", 500)

----------------------------------------------------------------------------
(* Properties of the pattern detectors.                                    *)

\* C22: a call of a pattern detector returns at most one pattern.
C22_AtMostOnePattern ==
    /\ RiskReturned("detectCandlestickPatterns") => Len(riskOut[1]) <= 1
    /\ RiskReturned("detectDoubleBottom") => Len(riskOut[1]) <= 1

----------------------------------------------------------------------------
(* Properties of the five strategies.                                      *)

\* The setups of the given type in the returned list.
ReturnedOfType(type) == SelectSeq(result, LAMBDA st : st.type = type)

HasSignal(st, signal) == \E k \in 1..Len(st.signals) : st.signals[k] = signal

LatestSnapshot == indicators[Len(indicators)]

\* What detectTrendFollowing returns for the same call without a prediction.
TrendWithoutPrediction == DetectTrendFollowing(candles, LatestSnapshot, <<>>, regime)

\* C23: a TREND_FOLLOWING setup whose signals contain 'AI Confirms SHORT' has
\* direction SHORT, and a setup that carries an 'AI Confirms' signal has a
\* confidence at least that of the same call without the prediction, which
\* is then emitted whenever the call without the prediction emits one.
C23_ConfirmationKeepsSign ==
    Returned =>
        /\ \A k \in 1..Len(ReturnedOfType("TREND_FOLLOWING")) :
              LET st == ReturnedOfType("TREND_FOLLOWING")[k]
              IN  /\ HasSignal(st, "AI Confirms SHORT") => st.direction = "SHORT"
                  /\ HasSignal(st, "AI Confirms LONG") => st.direction = "LONG"
                  /\ (HasSignal(st, "AI Confirms SHORT") \/ HasSignal(st, "AI Confirms LONG"))
                        => \A j \in 1..Len(TrendWithoutPrediction) :
                              st.confidence >= TrendWithoutPrediction[j].confidence
        /\ (AIConfirms(TrendScore(LatestSnapshot, <<>>, regime), prediction)
              /\ TrendWithoutPrediction # <<>>)
              => ReturnedOfType("TREND_FOLLOWING") # <<>>

CurrentPrice == candles[Len(candles)].close

\* What detectMeanReversion returns for the same call without any pattern.
ReversionWithoutPatterns == DetectMeanReversion(CurrentPrice, LatestSnapshot, <<>>)

\* A pattern of the reversal direction is present: BULLISH on an oversold RSI,
\* BEARISH on an overbought one.
ReversalPatternPresent ==
    \E k \in 1..Len(patterns) :
        \/ Oversold(LatestSnapshot) /\ patterns[k].direction = "BULLISH"
        \/ Overbought(LatestSnapshot) /\ patterns[k].direction = "BEARISH"

\* C24: with a pattern of the reversal direction present, a MEAN_REVERSION
\* setup that the same call without patterns emits is still emitted, with the
\* same direction and a confidence that is not lower.
C24_PatternNeverLowers ==
    (Returned /\ ReversalPatternPresent /\ ReversionWithoutPatterns # <<>>)
    => /\ ReturnedOfType("MEAN_REVERSION") # <<>>
       /\ \A k \in 1..Len(ReturnedOfType("MEAN_REVERSION")) :
             /\ ReturnedOfType("MEAN_REVERSION")[k].confidence
                   >= ReversionWithoutPatterns[1].confidence
             /\ ReturnedOfType("MEAN_REVERSION")[k].direction
                   = ReversionWithoutPatterns[1].direction

\* The candles before the current one, at most twenty of them.
PriorCandles == LastK(SubSeq(candles, 1, Len(candles) - 1), 20)

BreaksPriorHigh == CurrentPrice * 1000 > SeqMax(Highs(PriorCandles)) * 1001

BreaksPriorLow == CurrentPrice * 1000 < SeqMin(Lows(PriorCandles)) * 999

\* The score of the breakout strategy for a break of the given sign, as lines
\* 220-243 build it from the volume ratio and the patterns.
BreakoutScoreFor(sign) ==
    LET s1 == sign * 1500
        s2 == IF HighVolume(LatestSnapshot) THEN s1 + sign * 1000 ELSE s1
        bp == BreakoutPatterns(patterns)
    IN  IF Len(bp) > 0 THEN s2 + bp[1].confidence ELSE s2

\* C25: on well-formed candles whose last close lies more than 0.1% above the
\* highest high (below the lowest low) of the twenty candles before it, a
\* BREAKOUT setup is returned when the confidence of the strategy reaches
\* minConfidence.
C25_BreakoutAgainstPriorCandles ==
    (Returned /\ WellFormed(candles) /\ Len(candles) > 20)
    => /\ (BreaksPriorHigh
            /\ CappedConfidence(BreakoutScoreFor(1)) >= ConfOfMilli(minConfidence))
              => ReturnedOfType("BREAKOUT") # <<>>
       /\ (BreaksPriorLow
            /\ CappedConfidence(BreakoutScoreFor(-1)) >= ConfOfMilli(minConfidence))
              => ReturnedOfType("BREAKOUT") # <<>>

\* The prediction agrees with the selected pattern: LONG with a BULLISH
\* pattern, SHORT with a BEARISH one.
PredictionAgreesWithPattern ==
    /\ patterns # <<>> /\ prediction # <<>>
    /\ \/ prediction[1].direction = "LONG" /\ BestPattern(patterns).direction = "BULLISH"
       \/ prediction[1].direction = "SHORT" /\ BestPattern(patterns).direction = "BEARISH"

\* C26: a PATTERN_TRADE setup returned for a prediction that agrees with the
\* selected pattern has the pattern's confidence plus 0.10, plus 0.05 when the
\* RSI confirms, capped at 0.95, and carries the signal 'AI Confirms'.
C26_AgreeingPredictionCounts ==
    (Returned /\ PredictionAgreesWithPattern)
    => \A k \in 1..Len(ReturnedOfType("PATTERN_TRADE")) :
          LET st == ReturnedOfType("PATTERN_TRADE")[k]
              best == BestPattern(patterns)
          IN  /\ HasSignal(st, "AI Confirms")
              /\ st.confidence
                    = ConfOfMilli(MinInt(950, best.confidence + 100
                                              + (IF RSIConfirms(best, LatestSnapshot)
                                                 THEN 50 ELSE 0)))

\* The setups of the five strategies on the arguments of the current call that
\* reach minConfidence.
ExpectedSetups ==
    FilterByConfidence(AllSetups(candles, indicators, patterns, prediction, regime))

\* C27: in every state of a sequence of analyzeMarket calls getActiveSetups()
\* is the list the most recent returning call returned and setupHistory is
\* empty, and the list a call returns holds exactly the setups its own
\* arguments produce, whatever earlier calls returned.
C27_ActiveSetupsAreLastResult ==
    /\ GetActiveSetups = result
    /\ setupHistory = <<>>
    /\ Returned =>
          /\ Len(result) = Len(ExpectedSetups)
          /\ \A k \in 1..Len(result) :
                \E j \in 1..Len(ExpectedSetups) : result[k] = ExpectedSetups[j]

\* A call made at the later clock reading, hence not the first of its
\* sequence, has returned setups, and getActiveSetups() holds them.
C27_Witness ==
    /\ Returned
    /\ now = 1700000060
    /\ GetActiveSetups # <<>>
    /\ GetActiveSetups[1].timestamp = 1700000060

\* The mirror image of the inputs of detectTrendFollowing: the EMA order
\* reversed, MACD and its signal exchanged, the prediction and a trending
\* regime turned to the other direction.
MirrorSnapshot ==
    [LatestSnapshot EXCEPT !.ema9 = LatestSnapshot.ema50, !.ema50 = LatestSnapshot.ema9,
                           !.macd = LatestSnapshot.macdSignal,
                           !.macdSignal = LatestSnapshot.macd]

MirrorPrediction ==
    IF prediction = <<>> THEN <<>>
    ELSE << [prediction[1] EXCEPT !.direction = IF @ = "LONG" THEN "SHORT" ELSE "LONG"] >>

MirrorRegime ==
    IF regime.regime = "BULLISH_TRENDING" THEN [regime EXCEPT !.regime = "BEARISH_TRENDING"]
    ELSE IF regime.regime = "BEARISH_TRENDING" THEN [regime EXCEPT !.regime = "BULLISH_TRENDING"]
    ELSE regime

MirrorTrend == DetectTrendFollowing(candles, MirrorSnapshot, MirrorPrediction, MirrorRegime)

\* The fully bearish case: bearish-trending regime, EMA9 < EMA20 < EMA50, a SHORT
\* prediction and MACD below its signal.
FullyBearish ==
    /\ regime.regime = "BEARISH_TRENDING"
    /\ BearishMA(LatestSnapshot)
    /\ prediction # <<>> /\ prediction[1].direction = "SHORT"
    /\ HasMACD(LatestSnapshot) /\ LatestSnapshot.macd[1] < LatestSnapshot.macdSignal[1]

\* C28: detectTrendFollowing returns a setup exactly when it returns one for
\* the mirrored inputs, with the same confidence and the opposite direction;
\* with minConfidence 0.60 the fully bearish case returns a SHORT setup.
C28_TrendSymmetry ==
    Returned =>
        /\ Len(ReturnedOfType("TREND_FOLLOWING")) = Len(MirrorTrend)
        /\ \A k \in 1..Len(ReturnedOfType("TREND_FOLLOWING")) :
              \A j \in 1..Len(MirrorTrend) :
                 /\ ReturnedOfType("TREND_FOLLOWING")[k].confidence = MirrorTrend[j].confidence
                 /\ ReturnedOfType("TREND_FOLLOWING")[k].direction # MirrorTrend[j].direction
        /\ (FullyBearish /\ minConfidence = DefaultMinConfidence)
              => \E k \in 1..Len(ReturnedOfType("TREND_FOLLOWING")) :
                    ReturnedOfType("TREND_FOLLOWING")[k].direction = "SHORT"

----------------------------------------------------------------------------
(* Properties of the pattern summary.                                      *)

\* C29: when detectAllPatterns(c) has returned, getPatternSummary() reports the
\* list that call returned, as many patterns as that list holds, and, for a
\* list of at least MinCandles candles, the levels of c; after a call on fewer
\* candles, which returns the empty list, it reports no patterns.
C29_SummaryIsLastCall ==
    pc = "ready" =>
        /\ GetPatternSummary.patterns = patterns
        /\ GetPatternSummary.total = Len(patterns)
        /\ Len(candles) >= MinCandles =>
              GetPatternSummary.supportResistance = DetectSupportResistance(candles)

----------------------------------------------------------------------------
(* Properties of the WebSocketManager.                                     *)

\* C30: the dashboard connects only the current symbol and disconnects a
\* symbol when it leaves it, so a disconnect that is final means that every
\* WebSocket opened is one for the current symbol, and that every event
\* emitted after changeSymbol carries the current symbol.
C30_DisconnectIsFinal ==
    [][ /\ Len(sockets') > Len(sockets) =>
             sockets'[Len(sockets')].symbol = currentSymbol'
        /\ \A e \in emitted' \ emitted : e.symbol = currentSymbol' ]_vars

====
